---- MODULE Spec2Model ----
(***************************************************************************)
(* Model of the obs-rave-overlay core: the BeatEngine, the ThemeEngine and *)
(* the colour extractor of src/shared/lib/theme-engine.js, the EventBus of *)
(* src/shared/lib/event-bus.js, the polling of the SpotifyService          *)
(* (src/unnamed/part_001) and the connection of the HomeAssistantService   *)
(* (src/shared/services/home-assistant-service.js).                        *)
(*                                                                         *)
(* Thirteen specifications share the module:                               *)
(*   Spec      the ThemeEngine with the BeatEngine it owns and the host's  *)
(*             interval timers;                                            *)
(*   SpecBeat  a BeatEngine driven through its own methods;                *)
(*   SpecGenre detectGenreTheme run on lists of tags;                      *)
(*   SpecFeatures  generateThemeFromTrack run on audio features;           *)
(*   SpecExtract   extractColors run on images;                            *)
(*   SpecPoll  a SpotifyService that is polled;                            *)
(*   SpecHA    a HomeAssistantService with its sockets and timers;         *)
(*   SpecHALive    the same, where timers run and fetches are answered;    *)
(*   SpecReconnect the reconnection of that service until it gives up;     *)
(*   SpecBus   one receiving EventBus instance with its dedup history and  *)
(*             the host's cleanup timers;                                  *)
(*   SpecDispatch  the dispatch of messages of two types by that instance; *)
(*   SpecSub   the same, with the observation of the subscriptions that    *)
(*             off and disconnect took away;                               *)
(*   SpecPub   one publishing EventBus instance and the broadcast medium   *)
(*             that carries what it posts.                                 *)
(***************************************************************************)
EXTENDS Integers, Sequences, FiniteSets, Bags, TLC

VARIABLES
  now,          \* the host clock, Date.now(), in ms
  GENRE_THEMES, \* theme-engine.js:10 the genre catalog (a module-level object)
  themeEngine,  \* the fields of the ThemeEngine instance
  beatEngine,   \* the fields of the BeatEngine instance owned by themeEngine
  timers,       \* the host's active setInterval timers: id -> interval
  nextTimerId,  \* the id the host gives to the next timer
  pending,      \* generateThemeFromTrack calls suspended in await extractColors
  lastCall,     \* observation of the last call: arguments, result, ticks emitted
  channel,      \* EventBus.channel: TRUE when a BroadcastChannel is attached
  listeners,    \* EventBus.listeners: key -> insertion-ordered set of callbacks (empty when the key is absent)
  messageHistory, \* EventBus.messageHistory: the recorded dedup keys
  cleanups,     \* the host's pending setTimeout cleanups: a bag of [key, delay left]
  posted,       \* messages handed to channel.postMessage by emit
  inflight,     \* deliveries the broadcast medium has queued: [to, message]
  received,     \* observation: the messages each endpoint's onmessage was run with
  removed,      \* observation (kept under SpecSub only): subscriptions taken away by off or disconnect and not registered again
  recorded,     \* observation: per message whose dedup entry is live, its arrivals and invocations so far
  lastMsg,      \* observation of the handleMessage call that has just returned
  spotify,      \* the fields of the SpotifyService instance and its poll() runs
  homeAssistant, \* the fields of the HomeAssistantService instance
  haHost        \* the sockets, timers and suspended calls the host holds for homeAssistant

themeVars == <<GENRE_THEMES, themeEngine, beatEngine, timers, nextTimerId, pending, lastCall>>
pubVars == <<posted, inflight, received>>
busVars == <<channel, listeners, messageHistory, cleanups, pubVars, removed, recorded, lastMsg>>
serviceVars == <<spotify, homeAssistant, haHost>>
vars == <<now, themeVars, busVars, serviceVars>>

\* A JavaScript value that may be null or undefined is kept as a sequence:
\* NULL for null / undefined / an absent field, Some(v) for the value v
NULL == <<>>
Some(v) == <<v>>
Val(x) == x[1]

(***************************************************************************)
(* Bounds of the model                                                     *)
(***************************************************************************)
MaxTimers == 2      \* interval timers the host hands out in one behaviour
MaxBeat == 2        \* beatCount up to which the interval callback is explored
MaxPending == 1     \* overlapping generateThemeFromTrack calls
MaxTime == 50       \* the clock is explored up to this instant (theme engine)
TimeStep == 50      \* granularity of the clock
MaxArrivals == 2       \* arrivals of one message while its dedup entry is live
MaxCleanups == 2       \* cleanup timers pending at once
BusTimeStep == 100     \* granularity of the passing of time (event bus)
MaxSubs == 2           \* registrations held by the listener registry
MaxPosted == 1         \* messages emitted in one behaviour
MaxRemoved == 2        \* removed subscriptions the observation holds
MaxTags == 3           \* tags in the list given to detectGenreTheme
MaxPixels == 3         \* pixels of the image given to extractColors
MaxPolls == 3          \* runs of poll() in one behaviour
MaxSockets == 2        \* WebSockets the host holds at once
MaxMade == 2           \* WebSockets made in one behaviour
MaxIntervals == 2      \* polling intervals of the HomeAssistantService active at once
MaxReconnects == 1     \* reconnect timeouts pending at once
MaxAuth == 1           \* authenticate() calls suspended at once
MaxMessages == 1       \* messages sent over the WebSocket in one behaviour

(***************************************************************************)
(* Numbers: 60000 / bpm is kept as an exact fraction                       *)
(***************************************************************************)
Ratio(n, d) == [num |-> n, den |-> d]

\* q = k exactly
RatioIs(q, k) == q.num = k * q.den

\* Math.round(n / d): nearest integer, halves towards +Infinity
MathRound(n, d) ==
  IF d > 0 THEN (2 * n + d) \div (2 * d)
           ELSE (2 * (0 - n) + (0 - d)) \div (2 * (0 - d))

(***************************************************************************)
(* BeatEngine (theme-engine.js:375-493).  Its methods are operators on a   *)
(* world w = [be, timers, nextTimerId, ticks, threw]: the engine's fields, *)
(* the host's interval timers, the ticks handed to eventBus.emit during    *)
(* the call, and whether the call ended in an uncaught exception.          *)
(***************************************************************************)
BeatEngineInit ==
  [eventBus |-> TRUE, bpm |-> NULL, beatInterval |-> NULL, beatTimerId |-> NULL,
   beatCount |-> 0, audioFeatures |-> NULL, isRunning |-> FALSE]

World(be, tm, id) ==
  [be |-> be, timers |-> tm, nextTimerId |-> id, ticks |-> <<>>, threw |-> FALSE]

\* emitBeat that hands the count to the bus before raising it
emitBeat_emitThenCount(w, t) ==
  LET be1 == [w.be EXCEPT !.beatCount = @ + 1] IN
  IF ~w.be.eventBus
    THEN [w EXCEPT !.be = be1, !.threw = TRUE]
    ELSE [w EXCEPT !.be = be1,
                   !.ticks = Append(@, [beatCount |-> w.be.beatCount,
                                        bpm |-> be1.bpm,
                                        beatInterval |-> be1.beatInterval,
                                        audioFeatures |-> be1.audioFeatures,
                                        timestamp |-> t])]

\* emitBeat (440-456): beatCount++, then eventBus.emit('beat:tick', ...); a
\* destroyed engine has eventBus = null and the property access throws
emitBeat(w, t) ==
  LET be1 == [w.be EXCEPT !.beatCount = @ + 1] IN
  IF ~w.be.eventBus
    THEN [w EXCEPT !.be = be1, !.threw = TRUE]
    ELSE [w EXCEPT !.be = be1,
                   !.ticks = Append(@, [beatCount |-> be1.beatCount,
                                        bpm |-> be1.bpm,
                                        beatInterval |-> be1.beatInterval,
                                        audioFeatures |-> be1.audioFeatures,
                                        timestamp |-> t])]

\* clearInterval(id) on the host's timer table
clearInterval(tm, id) == [i \in DOMAIN tm \ {id} |-> tm[i]]

\* setInterval(callback, interval) on the host's timer table, giving id
setInterval(tm, id, interval) ==
  [i \in DOMAIN tm \cup {id} |-> IF i = id THEN interval ELSE tm[i]]

\* stopBeat that resets the fields but leaves the interval installed
stopBeat_keepsTimer(w) ==
  [w EXCEPT !.be = [@ EXCEPT !.beatTimerId = NULL, !.isRunning = FALSE, !.beatCount = 0]]

\* stopBeat (461-471): clearInterval when a timer id is held, then reset
stopBeat(w) ==
  LET tm == IF w.be.beatTimerId # NULL
              THEN clearInterval(w.timers, Val(w.be.beatTimerId))
              ELSE w.timers
  IN [w EXCEPT !.timers = tm,
               !.be = [@ EXCEPT !.beatTimerId = NULL,
                                !.isRunning = FALSE,
                                !.beatCount = 0]]

\* startBeat (412-435): returns early without bpm or when running; else marks
\* running, resets the count, emits the immediate beat, installs the interval
startBeat(w, t) ==
  IF w.be.bpm = NULL THEN w
  ELSE IF w.be.isRunning THEN w
  ELSE
    LET w1 == [w EXCEPT !.be = [@ EXCEPT !.isRunning = TRUE, !.beatCount = 0]]
        w2 == emitBeat(w1, t)
    IN IF w2.threw THEN w2
       ELSE [w2 EXCEPT !.timers = setInterval(@, w2.nextTimerId, Val(w2.be.beatInterval)),
                       !.be = [@ EXCEPT !.beatTimerId = Some(w2.nextTimerId)],
                       !.nextTimerId = @ + 1]

\* the validation with the upper limit excluded
ValidBPM_below300(bpm) ==
  IF bpm = NULL THEN 120
  ELSE IF Val(bpm) = 0 \/ Val(bpm) <= 0 \/ Val(bpm) >= 300 THEN 120
  ELSE Val(bpm)

\* the validation of setBPM (393-396): !bpm || bpm <= 0 || bpm > 300 gives 120
ValidBPM(bpm) ==
  IF bpm = NULL THEN 120
  ELSE IF Val(bpm) = 0 \/ Val(bpm) <= 0 \/ Val(bpm) > 300 THEN 120
  ELSE Val(bpm)

\* setBPM that starts without stopping first
setBPM_noStop(w, bpm, audioFeatures, t) ==
  LET b == ValidBPM(bpm)
      w1 == [w EXCEPT !.be = [@ EXCEPT !.bpm = Some(b),
                                       !.audioFeatures = audioFeatures,
                                       !.beatInterval = Some(Ratio(60000, b))]]
  IN startBeat(w1, t)

\* setBPM (391-407): validate, store bpm, features and interval, stop, start
setBPM(w, bpm, audioFeatures, t) ==
  LET b == ValidBPM(bpm)
      w1 == [w EXCEPT !.be = [@ EXCEPT !.bpm = Some(b),
                                       !.audioFeatures = audioFeatures,
                                       !.beatInterval = Some(Ratio(60000, b))]]
  IN startBeat(stopBeat(w1), t)

\* destroy (489-492): stopBeat, then drop the bus reference
destroy(w) ==
  LET w1 == stopBeat(w) IN [w1 EXCEPT !.be = [@ EXCEPT !.eventBus = FALSE]]

(***************************************************************************)
(* Strings that the code searches or rewrites are sequences of one-        *)
(* character strings, so that toLowerCase, trim and includes are computed  *)
(* as the code computes them.                                              *)
(***************************************************************************)
UpperCase == <<"A","B","C","D","E","F","G","H","I","J","K","L","M","N","O","P","Q","R","S","T","U","V","W","X","Y","Z">>
LowerCase == <<"a","b","c","d","e","f","g","h","i","j","k","l","m","n","o","p","q","r","s","t","u","v","w","x","y","z">>

\* String.prototype.toLowerCase on the letters A-Z
toLowerCase(s) ==
  [i \in 1..Len(s) |->
     IF \E k \in 1..26 : UpperCase[k] = s[i]
       THEN LowerCase[CHOOSE k \in 1..26 : UpperCase[k] = s[i]]
       ELSE s[i]]

IsSpace(c) == c \in {" ", "\t", "\n"}

\* String.prototype.trim: drop the white space at both ends
trim(s) ==
  IF \A i \in 1..Len(s) : IsSpace(s[i]) THEN <<>>
  ELSE LET first == CHOOSE i \in 1..Len(s) : ~IsSpace(s[i]) /\ \A j \in 1..(i-1) : IsSpace(s[j])
           last == CHOOSE i \in 1..Len(s) : ~IsSpace(s[i]) /\ \A j \in (i+1)..Len(s) : IsSpace(s[j])
       IN SubSeq(s, first, last)

\* String.prototype.includes: sub occurs in s as a contiguous substring
includes(s, sub) ==
  \E i \in 1..(Len(s) - Len(sub) + 1) : SubSeq(s, i, i + Len(sub) - 1) = sub

\* GENRE_MAP (theme-engine.js:105-146), in the order Object.entries walks it
GENRE_MAP == <<
  <<<<"t","r","a","n","c","e">>, "trance">>,
  <<<<"p","r","o","g","r","e","s","s","i","v","e"," ","t","r","a","n","c","e">>, "trance">>,
  <<<<"u","p","l","i","f","t","i","n","g"," ","t","r","a","n","c","e">>, "trance">>,
  <<<<"v","o","c","a","l"," ","t","r","a","n","c","e">>, "trance">>,
  <<<<"p","s","y","t","r","a","n","c","e">>, "trance">>,
  <<<<"p","s","y"," ","t","r","a","n","c","e">>, "trance">>,
  <<<<"h","a","r","d","c","o","r","e">>, "hardcore">>,
  <<<<"f","r","e","n","c","h","c","o","r","e">>, "hardcore">>,
  <<<<"s","p","e","e","d","c","o","r","e">>, "hardcore">>,
  <<<<"u","p","t","e","m","p","o"," ","h","a","r","d","c","o","r","e">>, "hardcore">>,
  <<<<"g","a","b","b","e","r">>, "hardcore">>,
  <<<<"i","n","d","u","s","t","r","i","a","l"," ","h","a","r","d","c","o","r","e">>, "hardcore">>,
  <<<<"h","a","r","d","s","t","y","l","e">>, "hardstyle">>,
  <<<<"r","a","w","s","t","y","l","e">>, "hardstyle">>,
  <<<<"e","u","p","h","o","r","i","c"," ","h","a","r","d","s","t","y","l","e">>, "hardstyle">>,
  <<<<"t","e","c","h","n","o">>, "techno">>,
  <<<<"m","i","n","i","m","a","l"," ","t","e","c","h","n","o">>, "techno">>,
  <<<<"a","c","i","d"," ","t","e","c","h","n","o">>, "techno">>,
  <<<<"d","e","t","r","o","i","t"," ","t","e","c","h","n","o">>, "techno">>,
  <<<<"h","o","u","s","e">>, "house">>,
  <<<<"t","e","c","h"," ","h","o","u","s","e">>, "house">>,
  <<<<"d","e","e","p"," ","h","o","u","s","e">>, "house">>,
  <<<<"p","r","o","g","r","e","s","s","i","v","e"," ","h","o","u","s","e">>, "house">>,
  <<<<"e","l","e","c","t","r","o"," ","h","o","u","s","e">>, "house">>,
  <<<<"d","r","u","m"," ","a","n","d"," ","b","a","s","s">>, "dnb">>,
  <<<<"d","n","b">>, "dnb">>,
  <<<<"j","u","n","g","l","e">>, "dnb">>,
  <<<<"n","e","u","r","o","f","u","n","k">>, "dnb">>,
  <<<<"l","i","q","u","i","d"," ","d","n","b">>, "dnb">>
>>

\* GENRE_MAP is an object literal (104), so it inherits from Object.prototype.
\* Of the inherited property names, these are the ones a lowercased tag can
\* spell; their values are objects, named here by what they are.
ObjectPrototype == <<
  <<<<"c","o","n","s","t","r","u","c","t","o","r">>, "function Object">>,
  <<<<"_","_","p","r","o","t","o","_","_">>, "Object.prototype">>
>>

\* the value of the entry of table that has this key, NULL when none has it
Lookup(table, key) ==
  IF \E i \in 1..Len(table) : table[i][1] = key
    THEN Some(table[CHOOSE i \in 1..Len(table) : table[i][1] = key][2])
    ELSE NULL

\* a lookup that sees the table's own keys only
GenreMapGet_ownKeys(normalized) == Lookup(GENRE_MAP, normalized)

\* GENRE_MAP[normalized] (172-173): the value of the own key, else the
\* inherited property of that name, else NULL (undefined)
GenreMapGet(normalized) ==
  IF Lookup(GENRE_MAP, normalized) # NULL THEN Lookup(GENRE_MAP, normalized)
  ELSE Lookup(ObjectPrototype, normalized)

\* the partial matching loop (177-181): the first entry, in table order, whose
\* key is contained in the tag or contains it
PartialMatch(normalized) ==
  LET hits == {i \in 1..Len(GENRE_MAP) :
                 includes(normalized, GENRE_MAP[i][1]) \/ includes(GENRE_MAP[i][1], normalized)}
  IN IF hits = {} THEN NULL
     ELSE Some(GENRE_MAP[CHOOSE i \in hits : \A j \in hits : i <= j][2])

\* the for-of loop of detectGenreTheme from tag k on
RECURSIVE DetectFrom(_, _)
DetectFrom(genres, k) ==
  IF k > Len(genres) THEN "default"
  ELSE LET normalized == trim(toLowerCase(genres[k])) IN
       IF GenreMapGet(normalized) # NULL THEN Val(GenreMapGet(normalized))
       ELSE IF PartialMatch(normalized) # NULL THEN Val(PartialMatch(normalized))
       ELSE DetectFrom(genres, k + 1)

\* detectGenreTheme (163-185); genres is NULL or Some(list of tags)
detectGenreTheme(genres) ==
  IF genres = NULL \/ Len(Val(genres)) = 0 THEN "default"
  ELSE DetectFrom(Val(genres), 1)

\* the tags of the lists detectGenreTheme is run on: "Progressive Trance",
\* "ambient drone", "Techno", " House ", "hard", "melodic techno", "",
\* "Constructor", "dnb", "future house", "  "
TagInputs ==
  {<<"P","r","o","g","r","e","s","s","i","v","e"," ","T","r","a","n","c","e">>,
   <<"a","m","b","i","e","n","t"," ","d","r","o","n","e">>,
   <<"T","e","c","h","n","o">>,
   <<" ","H","o","u","s","e"," ">>,
   <<"h","a","r","d">>,
   <<"m","e","l","o","d","i","c"," ","t","e","c","h","n","o">>,
   <<>>,
   <<"C","o","n","s","t","r","u","c","t","o","r">>,
   <<"d","n","b">>,
   <<"f","u","t","u","r","e"," ","h","o","u","s","e">>,
   <<" "," ">>}

\* the lists of at most n tags
RECURSIVE TagLists(_)
TagLists(n) ==
  IF n = 0 THEN {<<>>}
  ELSE TagLists(n - 1) \cup
       {Append(l, t) : l \in {x \in TagLists(n - 1) : Len(x) = n - 1}, t \in TagInputs}

\* genres: absent, or a list of tags
GenreInputs == {NULL} \cup {Some(l) : l \in TagLists(MaxTags)}

(***************************************************************************)
(* Colours and the genre catalog                                           *)
(***************************************************************************)
RGB(r, g, b) == [r |-> r, g |-> g, b |-> b]

\* rgbToString (687-689)
rgbToString(color) ==
  "rgb(" \o ToString(color.r) \o ", " \o ToString(color.g) \o ", " \o ToString(color.b) \o ")"

GenreTheme(name, primary, secondary, accent, glow, speed, blur) ==
  [name |-> name,
   baseColors |-> [primary |-> primary, secondary |-> secondary, accent |-> accent],
   effects |-> [glowIntensity |-> glow, animationSpeed |-> speed, blurStrength |-> blur]]

GenreKeys == {"trance", "hardcore", "hardstyle", "techno", "house", "dnb", "default"}

\* GENRE_THEMES as the module is loaded (theme-engine.js:10-102)
GenreThemesInit ==
  [k \in GenreKeys |->
     CASE k = "trance" ->
            GenreTheme("Ethereal Trance", RGB(139, 92, 246), RGB(236, 72, 153), RGB(6, 182, 212), "30px", "2s", "12px")
       [] k = "hardcore" ->
            GenreTheme("Hardcore Energy", RGB(239, 68, 68), RGB(249, 115, 22), RGB(251, 191, 36), "35px", "0.5s", "8px")
       [] k = "hardstyle" ->
            GenreTheme("Hardstyle Power", RGB(239, 68, 68), RGB(249, 115, 22), RGB(251, 191, 36), "32px", "0.6s", "10px")
       [] k = "techno" ->
            GenreTheme("Techno Minimal", RGB(59, 130, 246), RGB(139, 92, 246), RGB(236, 72, 153), "20px", "1.2s", "10px")
       [] k = "house" ->
            GenreTheme("House Groove", RGB(16, 185, 129), RGB(6, 182, 212), RGB(139, 92, 246), "22px", "1.5s", "10px")
       [] k = "dnb" ->
            GenreTheme("Drum & Bass", RGB(236, 72, 153), RGB(6, 182, 212), RGB(251, 191, 36), "25px", "0.8s", "10px")
       [] k = "default" ->
            GenreTheme("Default", RGB(139, 92, 246), RGB(236, 72, 153), RGB(6, 182, 212), "20px", "1s", "10px")]

(***************************************************************************)
(* ThemeEngine (theme-engine.js:148-366)                                   *)
(***************************************************************************)
ThemeEngineInit ==
  [currentTheme |-> NULL, syncWithHA |-> FALSE, albumArtColors |-> NULL,
   haLightColors |-> NULL, currentBPM |-> NULL, audioFeatures |-> NULL]

\* x || d for a number x: the default when x is absent or 0
OrDefault(x, d) == IF x = NULL \/ Val(x) = 0 THEN d ELSE Val(x)

\* trackData.features?.f for a field f picked by get
Feature(trackData, get(_)) ==
  IF trackData.features = NULL THEN NULL ELSE get(Val(trackData.features))

GetBpm(f) == f.bpm
GetEnergy(f) == f.energy
GetValence(f) == f.valence
GetDanceability(f) == f.danceability

\* lines 224-229: bpm and audio features with their defaults; energy, valence
\* and danceability are kept in hundredths (0.5 is 50)
ResolveBPM(trackData) == OrDefault(Feature(trackData, GetBpm), 120)

ResolveFeatures(trackData) ==
  [energy |-> OrDefault(Feature(trackData, GetEnergy), 50),
   valence |-> OrDefault(Feature(trackData, GetValence), 50),
   danceability |-> OrDefault(Feature(trackData, GetDanceability), 50)]

\* a classification whose limits belong to the outer classes
IntensityClass_inclusive(energy) ==
  IF energy <= 40 THEN "low" ELSE IF energy >= 70 THEN "high" ELSE "medium"

\* lines 243-248: energy < 0.4 is low, energy > 0.7 is high, else medium
IntensityClass(energy) ==
  IF energy < 40 THEN "low" ELSE IF energy > 70 THEN "high" ELSE "medium"

\* line 240: bpm ? `${Math.round(60000 / bpm)}ms` : '1000ms'
BeatDuration(bpm) ==
  IF bpm # 0 THEN ToString(MathRound(60000, bpm)) \o "ms" ELSE "1000ms"

\* lines 208-212: the colors object built from an extracted palette
ExtractedColors(extracted, genreTheme) ==
  [primary |-> extracted.dominant,
   secondary |-> IF Len(extracted.palette) >= 2 THEN extracted.palette[2]
                                                ELSE extracted.dominant,
   accent |-> genreTheme.baseColors.accent]

\* an override that replaces the secondary colour as well
OverrideColors_secondaryToo(colors, te) ==
  IF te.syncWithHA /\ te.haLightColors # NULL
    THEN [colors EXCEPT !.primary = Val(te.haLightColors),
                        !.secondary = Val(te.haLightColors)]
    ELSE colors

\* lines 218-221: with sync enabled and an override stored, the override is
\* written to colors.primary
OverrideColors(colors, te) ==
  IF te.syncWithHA /\ te.haLightColors # NULL
    THEN [colors EXCEPT !.primary = Val(te.haLightColors)]
    ELSE colors

\* line 197: GENRE_THEMES[genreKey] || GENRE_THEMES.default, as the key of
\* the catalog entry that is used
ThemeKeyOf(genreKey) == IF genreKey \in GenreKeys THEN genreKey ELSE "default"

\* lines 218-275 of generateThemeFromTrack, from the override on.  fresh is
\* NULL when colors is still the genre's own baseColors object (line 200) and
\* Some(colors) when lines 208-212 replaced it by a new object; in the first
\* case the write of line 220 lands in GENRE_THEMES[genreKey].baseColors.
\* st = [te, cat, w]: the engine, the catalog, the beat engine's world.
FinishTheme(st, trackData, genreKey, fresh, t) ==
  LET te == st.te
      themeKey == ThemeKeyOf(genreKey)
      colors == OverrideColors(IF fresh = NULL THEN st.cat[themeKey].baseColors
                                               ELSE Val(fresh), te)
      cat1 == IF fresh = NULL THEN [st.cat EXCEPT ![themeKey].baseColors = colors]
                              ELSE st.cat
      bpm == ResolveBPM(trackData)
      audioFeatures == ResolveFeatures(trackData)
      te1 == [te EXCEPT !.currentBPM = Some(bpm), !.audioFeatures = Some(audioFeatures)]
      w1 == IF bpm > 0 THEN setBPM(st.w, Some(bpm), Some(audioFeatures), t) ELSE st.w
      theme == [source |-> IF te.syncWithHA /\ te.haLightColors # NULL
                             THEN "homeassistant" ELSE "spotify",
                genre |-> genreKey,
                genreName |-> cat1[themeKey].name,
                colors |-> [primary |-> rgbToString(colors.primary),
                            secondary |-> rgbToString(colors.secondary),
                            accent |-> rgbToString(colors.accent),
                            background |-> "rgba(0, 0, 0, 0.7)",
                            text |-> "#ffffff",
                            textSecondary |-> "rgba(255, 255, 255, 0.7)"],
                effects |-> [glowIntensity |-> cat1[themeKey].effects.glowIntensity,
                             animationSpeed |-> cat1[themeKey].effects.animationSpeed,
                             blurStrength |-> cat1[themeKey].effects.blurStrength,
                             beatDuration |-> BeatDuration(bpm)],
                audioFeatures |-> audioFeatures,
                bpm |-> bpm,
                intensityClass |-> IntensityClass(audioFeatures.energy),
                timestamp |-> t]
  IN IF w1.threw
       THEN [te |-> te1, cat |-> cat1, w |-> w1, result |-> NULL, theme |-> theme]
       ELSE [te |-> [te1 EXCEPT !.currentTheme = Some(theme)],
             cat |-> cat1, w |-> w1, result |-> Some(theme), theme |-> theme]

(***************************************************************************)
(* Inputs                                                                  *)
(***************************************************************************)
\* a trackData with a track: album art (absent or a URL), genre tags (absent
\* or a list), and features.bpm (features absent when bpm is NULL)
Track(albumArt, genres, bpm) ==
  Some([track |-> Some([albumArt |-> albumArt]),
        genres |-> genres,
        features |-> IF bpm = NULL THEN NULL
                     ELSE Some([bpm |-> bpm, energy |-> NULL, valence |-> NULL,
                                danceability |-> NULL])])

ArtURL == Some("https://i.scdn.co/image/1")

\* a trackData as getTrackData builds it (part_001:167-172): features is
\* always an object, and energy, valence and danceability are numbers in
\* hundredths or absent
TrackWith(energy, valence, danceability) ==
  Some([track |-> Some([albumArt |-> NULL]),
        genres |-> NULL,
        features |-> Some([bpm |-> Some(128), energy |-> energy, valence |-> valence,
                           danceability |-> danceability])])

\* energy on both sides of the two limits, at 0 and at 1; valence and
\* danceability absent, 0 and in between
FeatureInputs ==
  {TrackWith(e, v, d) :
     e \in {NULL, Some(0), Some(39), Some(40), Some(70), Some(71), Some(100)},
     v \in {NULL, Some(0), Some(30)},
     d \in {NULL, Some(0), Some(80)}}

TechnoTags == Some(<< <<"T","e","c","h","n","o">> >>)

\* trackData: absent, without track, or a track: with and without album art,
\* with and without genres, and with a tempo that is absent, in range, above
\* 300 or negative
TrackInputs ==
  {NULL,
   Some([track |-> NULL, genres |-> NULL, features |-> NULL]),
   Track(NULL, NULL, NULL),
   Track(NULL, TechnoTags, Some(140)),
   Track(NULL, TechnoTags, Some(400)),
   Track(NULL, NULL, Some(0 - 5)),
   Track(ArtURL, TechnoTags, Some(140)),
   Track(ArtURL, NULL, NULL)}

\* what extractColors settles with: a rejection (NULL) or a palette (the fixed
\* fallback, or a palette of a single colour)
ExtractOutcomes ==
  {NULL,
   Some([dominant |-> RGB(139, 92, 246),
         palette |-> <<RGB(139, 92, 246), RGB(236, 72, 153), RGB(6, 182, 212)>>]),
   Some([dominant |-> RGB(200, 40, 40), palette |-> <<RGB(200, 40, 40)>>])}

\* lightState: absent, without rgb_color, or with one
LightInputs ==
  {NULL, Some([rgb_color |-> NULL]), Some([rgb_color |-> Some(<<10, 20, 30>>)])}

\* the {} that setBPM takes for an omitted audioFeatures argument
EmptyObject == <<>>

\* setBPM called directly: undefined, 0, negative, in range, the limit, above it
SetBpmInputs == {NULL, Some(0), Some(0 - 5), Some(140), Some(300), Some(301)}

(***************************************************************************)
(* Color extractor (theme-engine.js:506-682)                               *)
(***************************************************************************)
Max(a, b) == IF a >= b THEN a ELSE b
Min(a, b) == IF a <= b THEN a ELSE b

\* how the promise of extractColors settles
Resolved(value) == [settled |-> "resolved", value |-> value]
Rejected == [settled |-> "rejected"]

\* the palette of lines 555-562 and 587-594
FallbackPalette ==
  [dominant |-> RGB(139, 92, 246),
   palette |-> <<RGB(139, 92, 246), RGB(236, 72, 153), RGB(6, 182, 212)>>]

\* lines 536-550: a pixel is kept when it is opaque enough (a >= 128), its
\* brightness (r + g + b) / 3 is between 30 and 225, and its saturation
\* (max - min) / max is above 0.2
IsVibrant(p) ==
  LET max == Max(p.r, Max(p.g, p.b))
      min == Min(p.r, Min(p.g, p.b))
  IN /\ p.a >= 128
     /\ p.r + p.g + p.b > 3 * 30
     /\ p.r + p.g + p.b < 3 * 225
     /\ max # 0
     /\ 5 * (max - min) > max

\* lines 528-551: the colours of the kept pixels, in pixel order
VibrantColors(pixels) ==
  LET kept == SelectSeq(pixels, IsVibrant)
  IN [i \in 1..Len(kept) |-> RGB(kept[i].r, kept[i].g, kept[i].b)]

\* colorDistance (664-670), squared: distances are only compared, with each
\* other and with 5
colorDistanceSquared(c1, c2) ==
  (c1.r - c2.r) * (c1.r - c2.r) + (c1.g - c2.g) * (c1.g - c2.g)
    + (c1.b - c2.b) * (c1.b - c2.b)

\* lines 621-630: the first centroid at the least distance
closestCentroid(color, centroids) ==
  CHOOSE i \in 1..Len(centroids) :
    /\ \A j \in 1..Len(centroids) :
         colorDistanceSquared(color, centroids[i]) <= colorDistanceSquared(color, centroids[j])
    /\ \A j \in 1..(i - 1) :
         colorDistanceSquared(color, centroids[j]) > colorDistanceSquared(color, centroids[i])

RECURSIVE SumOf(_)
SumOf(numbers) == IF numbers = <<>> THEN 0 ELSE Head(numbers) + SumOf(Tail(numbers))

\* lines 636-646: the rounded mean of a cluster; centroids[0] for an empty one
newCentroid(cluster, centroids) ==
  IF cluster = <<>> THEN centroids[1]
  ELSE RGB(MathRound(SumOf([i \in 1..Len(cluster) |-> cluster[i].r]), Len(cluster)),
           MathRound(SumOf([i \in 1..Len(cluster) |-> cluster[i].g]), Len(cluster)),
           MathRound(SumOf([i \in 1..Len(cluster) |-> cluster[i].b]), Len(cluster)))

\* kMeansClustering(colors, k, maxIterations = 10)
maxIterations == 10

\* lines 616-656: one iteration after the other until every centroid moves
\* by less than 5 or maxIterations are done (\o <<>> has the two arrays
\* built once, as the code does, instead of at every use)
RECURSIVE Iterate(_, _, _)
Iterate(colors, centroids, iteration) ==
  IF iteration >= maxIterations THEN centroids
  ELSE LET closest == [n \in 1..Len(colors) |-> closestCentroid(colors[n], centroids)] \o <<>>
           cluster(i) == LET members == SelectSeq([n \in 1..Len(colors) |-> n],
                                                  LAMBDA n : closest[n] = i)
                         IN [m \in 1..Len(members) |-> colors[members[m]]]
           newCentroids == [i \in 1..Len(centroids) |-> newCentroid(cluster(i), centroids)] \o <<>>
           converged == \A i \in 1..Len(centroids) :
                          colorDistanceSquared(newCentroids[i], centroids[i]) < 5 * 5
       IN IF converged THEN newCentroids
                       ELSE Iterate(colors, newCentroids, iteration + 1)

\* kMeansClustering (604-659): the colours themselves when there are at most
\* k; else k centroids, started at every step-th colour
kMeansClustering(colors, k) ==
  IF Len(colors) <= k THEN colors
  ELSE LET step == Len(colors) \div k
           centroids == [i \in 1..k |-> colors[(i - 1) * step + 1]]
       IN Iterate(colors, centroids, 0)

\* calculateVibrancy (675-682): saturation * brightness as an exact fraction,
\* in units of 1 / (3 * 255): vibrancies are only compared with each other
calculateVibrancy(color) ==
  LET max == Max(color.r, Max(color.g, color.b))
      min == Min(color.r, Min(color.g, color.b))
  IN IF max = 0 THEN Ratio(0, 1)
     ELSE Ratio((max - min) * (color.r + color.g + color.b), max)

MoreVibrant(a, b) ==
  calculateVibrancy(a).num * calculateVibrancy(b).den
    > calculateVibrancy(b).num * calculateVibrancy(a).den

\* lines 570-574: palette.sort by descending vibrancy; the sort is stable
sortByVibrancy(palette) ==
  LET n == Len(palette)
      rank(i) == 1 + Cardinality({j \in 1..n :
                       \/ MoreVibrant(palette[j], palette[i])
                       \/ j < i /\ ~MoreVibrant(palette[i], palette[j])})
  IN [p \in 1..n |-> palette[CHOOSE i \in 1..n : rank(i) = p]]

\* an extractColors whose onerror rejects
extractColors_rejectsLoadError(image, colorCount) ==
  IF ~image.loads THEN Rejected
  ELSE IF image.fault THEN Rejected
  ELSE LET colors == VibrantColors(image.pixels) IN
       IF colors = <<>> THEN Resolved(FallbackPalette)
       ELSE LET palette == sortByVibrancy(
                             kMeansClustering(colors, Min(colorCount, Len(colors))))
            IN Resolved([dominant |-> palette[1], palette |-> palette])

\* extractColors (506-599): onerror resolves with the fallback (585-595); an
\* exception in onload is caught and rejects (580-582); no kept pixel resolves
\* with the fallback (553-564); else the clustered palette, most vibrant first
extractColors(image, colorCount) ==
  IF ~image.loads THEN Resolved(FallbackPalette)
  ELSE IF image.fault THEN Rejected
  ELSE LET colors == VibrantColors(image.pixels) IN
       IF colors = <<>> THEN Resolved(FallbackPalette)
       ELSE LET palette == sortByVibrancy(
                             kMeansClustering(colors, Min(colorCount, Len(colors))))
            IN Resolved([dominant |-> palette[1], palette |-> palette])

\* what the browser makes of an image URL: the load fails; or the image
\* loads and the canvas calls throw (getContext gives null, getImageData
\* refuses a tainted or empty canvas); or the pixels are read
Image(loads, fault, pixels) == [loads |-> loads, fault |-> fault, pixels |-> pixels]

Pixel(r, g, b, a) == [r |-> r, g |-> g, b |-> b, a |-> a]

\* a red, a red two steps away from it, a blue, a transparent red and a grey
PixelInputs ==
  {Pixel(200, 40, 40, 255), Pixel(202, 40, 40, 255), Pixel(40, 40, 200, 255),
   Pixel(200, 40, 40, 100), Pixel(128, 128, 128, 255)}

RECURSIVE PixelLists(_)
PixelLists(n) ==
  IF n = 1 THEN {<<p>> : p \in PixelInputs}
  ELSE PixelLists(n - 1)
         \cup {Append(l, p) : l \in {x \in PixelLists(n - 1) : Len(x) = n - 1},
                               p \in PixelInputs}

ImageInputs ==
  {Image(FALSE, FALSE, <<>>), Image(TRUE, TRUE, <<>>)}
    \cup {Image(TRUE, FALSE, pixels) : pixels \in PixelLists(MaxPixels)}

\* colorCount: two colours, and the default of five
ColorCountInputs == {2, 5}

(***************************************************************************)
(* Initial state                                                           *)
(***************************************************************************)
NoCall == [op |-> "none"]

ThemeInit ==
  /\ GENRE_THEMES = GenreThemesInit
  /\ themeEngine = ThemeEngineInit
  /\ beatEngine = BeatEngineInit
  /\ timers = <<>>
  /\ nextTimerId = 1
  /\ pending = <<>>
  /\ lastCall = NoCall

(***************************************************************************)
(* Operations of the ThemeEngine                                           *)
(***************************************************************************)
TheWorld == World(beatEngine, timers, nextTimerId)

\* the state after FinishTheme, and what the caller of the async function
\* sees.  plain is the colours the same call gives when no override is stored.
Finished(st, trackData, genreKey, extracted, fresh) ==
  LET fin == FinishTheme(st, trackData, genreKey, fresh, now)
      off == FinishTheme([st EXCEPT !.te.haLightColors = NULL],
                         trackData, genreKey, fresh, now)
  IN /\ themeEngine' = fin.te
     /\ GENRE_THEMES' = fin.cat
     /\ beatEngine' = fin.w.be
     /\ timers' = fin.w.timers
     /\ nextTimerId' = fin.w.nextTimerId
     /\ lastCall' = [op |-> "generateThemeFromTrack", genreKey |-> genreKey,
                     features |-> trackData.features,
                     extracted |-> extracted, result |-> fin.result,
                     plain |-> off.theme.colors,
                     ticks |-> fin.w.ticks, threw |-> fin.w.threw]

\* a generateThemeFromTrack that drops the current Theme when there is no track
GenerateThemeFromTrack_clearsTheme(trackData) ==
  /\ IF trackData = NULL \/ Val(trackData).track = NULL
       THEN /\ lastCall' = [op |-> "generateThemeFromTrack", result |-> NULL,
                            ticks |-> <<>>, threw |-> FALSE, noTrack |-> TRUE]
            /\ themeEngine' = [themeEngine EXCEPT !.currentTheme = NULL]
            /\ UNCHANGED <<GENRE_THEMES, beatEngine, timers, nextTimerId, pending>>
       ELSE LET td == Val(trackData)
                genreKey == detectGenreTheme(td.genres)
            IN IF Val(td.track).albumArt # NULL
                 THEN /\ Len(pending) < MaxPending
                      /\ pending' = Append(pending, [trackData |-> td, genreKey |-> genreKey])
                      /\ lastCall' = [op |-> "generateThemeFromTrack:await"]
                      /\ UNCHANGED <<GENRE_THEMES, themeEngine, beatEngine, timers, nextTimerId>>
                 ELSE /\ nextTimerId <= MaxTimers
                      /\ Finished([te |-> themeEngine, cat |-> GENRE_THEMES, w |-> TheWorld],
                                  td, genreKey, NULL, NULL)
                      /\ UNCHANGED pending
  /\ UNCHANGED <<now, busVars, serviceVars>>

\* generateThemeFromTrack (190-275) up to its first suspension: returns null
\* without a track; suspends in await extractColors when there is album art;
\* otherwise runs to the end with the genre's own baseColors object as colors
GenerateThemeFromTrack(trackData) ==
  /\ IF trackData = NULL \/ Val(trackData).track = NULL
       THEN /\ lastCall' = [op |-> "generateThemeFromTrack", result |-> NULL,
                            ticks |-> <<>>, threw |-> FALSE, noTrack |-> TRUE]
            /\ UNCHANGED <<GENRE_THEMES, themeEngine, beatEngine, timers, nextTimerId, pending>>
       ELSE LET td == Val(trackData)
                genreKey == detectGenreTheme(td.genres)
            IN IF Val(td.track).albumArt # NULL
                 THEN /\ Len(pending) < MaxPending
                      /\ pending' = Append(pending, [trackData |-> td, genreKey |-> genreKey])
                      /\ lastCall' = [op |-> "generateThemeFromTrack:await"]
                      /\ UNCHANGED <<GENRE_THEMES, themeEngine, beatEngine, timers, nextTimerId>>
                 ELSE /\ nextTimerId <= MaxTimers
                      /\ Finished([te |-> themeEngine, cat |-> GENRE_THEMES, w |-> TheWorld],
                                  td, genreKey, NULL, NULL)
                      /\ UNCHANGED pending
  /\ UNCHANGED <<now, busVars, serviceVars>>

\* the i-th suspended call resumes when extractColors settles: with a palette
\* (204-212) or with a rejection, which is caught and logged (213-215)
ExtractionSettles(i, outcome) ==
  /\ i \in 1..Len(pending)
  /\ nextTimerId <= MaxTimers
  /\ LET call == pending[i]
         te1 == IF outcome # NULL THEN [themeEngine EXCEPT !.albumArtColors = outcome]
                                  ELSE themeEngine
         fresh == IF outcome # NULL
                    THEN Some(ExtractedColors(Val(outcome), GENRE_THEMES[ThemeKeyOf(call.genreKey)]))
                    ELSE NULL
     IN /\ Finished([te |-> te1, cat |-> GENRE_THEMES, w |-> TheWorld],
                    call.trackData, call.genreKey, Some(outcome), fresh)
        /\ pending' = SubSeq(pending, 1, i - 1) \o SubSeq(pending, i + 1, Len(pending))
  /\ UNCHANGED <<now, busVars, serviceVars>>

\* detectGenreTheme (163-185) called on its own; it reads and writes no
\* state, so one call per behaviour shows all it does
DetectGenreTheme(genres) ==
  /\ lastCall = NoCall
  /\ lastCall' = [op |-> "detectGenreTheme", genres |-> genres,
                  result |-> detectGenreTheme(genres)]
  /\ UNCHANGED <<GENRE_THEMES, themeEngine, beatEngine, timers, nextTimerId, pending>>
  /\ UNCHANGED <<now, busVars, serviceVars>>

\* extractColors (506-599) called on its own; it reads and writes no state
ExtractColors(image, colorCount) ==
  /\ lastCall = NoCall
  /\ lastCall' = [op |-> "extractColors", image |-> image, colorCount |-> colorCount,
                  result |-> extractColors(image, colorCount)]
  /\ UNCHANGED <<GENRE_THEMES, themeEngine, beatEngine, timers, nextTimerId, pending>>
  /\ UNCHANGED <<now, busVars, serviceVars>>

\* an updateFromHomeAssistant that repaints the current Theme with the
\* override it stores
UpdateFromHomeAssistant_regenerates(lightState) ==
  /\ IF lightState = NULL \/ Val(lightState).rgb_color = NULL
       THEN /\ themeEngine' = [themeEngine EXCEPT !.haLightColors = NULL]
            /\ lastCall' = [op |-> "updateFromHomeAssistant", lightState |-> lightState,
                            result |-> NULL, ticks |-> <<>>, threw |-> FALSE]
       ELSE LET rgb == Val(Val(lightState).rgb_color)
                color == RGB(rgb[1], rgb[2], rgb[3])
                theme == themeEngine.currentTheme
            IN
            /\ themeEngine' =
                 [themeEngine EXCEPT
                    !.haLightColors = Some(color),
                    !.currentTheme =
                       IF theme = NULL THEN NULL
                       ELSE Some([Val(theme) EXCEPT !.colors.primary = rgbToString(color)])]
            /\ lastCall' = [op |-> "updateFromHomeAssistant", lightState |-> lightState,
                            result |-> Some(themeEngine.currentTheme # NULL),
                            ticks |-> <<>>, threw |-> FALSE]
  /\ UNCHANGED <<GENRE_THEMES, beatEngine, timers, nextTimerId, pending, now, busVars, serviceVars>>

\* updateFromHomeAssistant (322-340): clears the override and returns
\* undefined without rgb_color; else stores it and returns currentTheme != null
UpdateFromHomeAssistant(lightState) ==
  /\ IF lightState = NULL \/ Val(lightState).rgb_color = NULL
       THEN /\ themeEngine' = [themeEngine EXCEPT !.haLightColors = NULL]
            /\ lastCall' = [op |-> "updateFromHomeAssistant", lightState |-> lightState,
                            result |-> NULL, ticks |-> <<>>, threw |-> FALSE]
       ELSE LET rgb == Val(Val(lightState).rgb_color) IN
            /\ themeEngine' = [themeEngine EXCEPT
                                 !.haLightColors = Some(RGB(rgb[1], rgb[2], rgb[3]))]
            /\ lastCall' = [op |-> "updateFromHomeAssistant", lightState |-> lightState,
                            result |-> Some(themeEngine.currentTheme # NULL),
                            ticks |-> <<>>, threw |-> FALSE]
  /\ UNCHANGED <<GENRE_THEMES, beatEngine, timers, nextTimerId, pending, now, busVars, serviceVars>>

\* setSyncWithHomeAssistant (345-348)
SetSyncWithHomeAssistant(enabled) ==
  /\ themeEngine' = [themeEngine EXCEPT !.syncWithHA = enabled]
  /\ lastCall' = [op |-> "setSyncWithHomeAssistant", enabled |-> enabled,
                  ticks |-> <<>>, threw |-> FALSE]
  /\ UNCHANGED <<GENRE_THEMES, beatEngine, timers, nextTimerId, pending, now, busVars, serviceVars>>

(***************************************************************************)
(* SpotifyService polling (part_001:189-240)                               *)
(***************************************************************************)
\* startPolling(callback, interval = 5000)
pollingInterval == 5000

\* constructor (part_001:7-14); awaiting counts the poll() runs suspended in
\* await this.getTrackData(), polls the runs started so far
SpotifyInit ==
  [isPolling |-> FALSE, pollInterval |-> NULL, currentTrackId |-> NULL,
   awaiting |-> 0, polls |-> 0]

\* what the server answers to the current-track request (part_001:42): a
\* status and, for 200, the playback state: null when the server has none,
\* else the item with its id and the is_playing flag
ResponseInputs ==
  {[status |-> 401, data |-> NULL], [status |-> 500, data |-> NULL],
   [status |-> 200, data |-> NULL]}
  \cup {[status |-> 200, data |-> Some([id |-> id, isPlaying |-> p])] :
          id \in {"t1", "t2"}, p \in BOOLEAN}

\* getCurrentTrack (part_001:33-65) for a request the server answers with
\* response: throws for 401 and for every other status that is not ok (the
\* catch of 61-64 logs and throws again), else returns the data
getCurrentTrack(response) ==
  IF response.status = 401 THEN [threw |-> TRUE, message |-> "Not authenticated"]
  ELSE IF response.status # 200 THEN [threw |-> TRUE, message |-> "API error"]
  ELSE [threw |-> FALSE, data |-> response.data]

\* getTrackData (part_001:134-184): null without a playing item (138-140) and
\* null for everything thrown inside it (180-183), else the track data; it
\* throws nothing
getTrackData(response) ==
  LET currentTrack == getCurrentTrack(response) IN
  IF currentTrack.threw THEN [threw |-> FALSE, trackData |-> NULL]
  ELSE [threw |-> FALSE, trackData |-> currentTrack.data]

\* what the caller's callback does with a track
CallbackOutcomes == {"returns", "throws", "throws Not authenticated"}

\* stopPolling (part_001:232-239) on the service sp and the timer table tm
stopPolling(sp, tm) ==
  [sp |-> [sp EXCEPT !.isPolling = FALSE, !.pollInterval = NULL],
   tm |-> IF sp.pollInterval # NULL THEN clearInterval(tm, Val(sp.pollInterval)) ELSE tm]

\* startPolling (part_001:189-227): returns when already polling; else sets
\* isPolling and runs poll(), which suspends in await this.getTrackData()
StartPolling ==
  /\ IF spotify.isPolling
       THEN /\ lastCall' = [op |-> "startPolling", started |-> FALSE]
            /\ UNCHANGED spotify
       ELSE /\ spotify.polls < MaxPolls
            /\ spotify' = [spotify EXCEPT !.isPolling = TRUE, !.awaiting = @ + 1,
                                          !.polls = @ + 1]
            /\ lastCall' = [op |-> "startPolling", started |-> TRUE]
  /\ UNCHANGED <<GENRE_THEMES, themeEngine, beatEngine, timers, nextTimerId, pending>>
  /\ UNCHANGED <<now, busVars, homeAssistant, haHost>>

\* the host runs poll as the callback of the interval timer id (line 213)
PollTimerFires(id) ==
  /\ id \in DOMAIN timers
  /\ spotify.polls < MaxPolls
  /\ spotify' = [spotify EXCEPT !.awaiting = @ + 1, !.polls = @ + 1]
  /\ lastCall' = [op |-> "poll:await", timer |-> id]
  /\ UNCHANGED <<GENRE_THEMES, themeEngine, beatEngine, timers, nextTimerId, pending>>
  /\ UNCHANGED <<now, busVars, homeAssistant, haHost>>

\* a suspended poll() resumes when the server has answered the request of
\* getTrackData (lines 198-223).  With a track: currentTrackId, the callback,
\* then the old timer is cleared and a new one set, at 6 times the interval
\* when paused.  With null: nothing.  A callback that throws leaves the try
\* block before the timer is set; the catch stops polling for an error whose
\* message is 'Not authenticated' alone.
PollResumes(response, outcome) ==
  /\ spotify.awaiting > 0
  /\ nextTimerId <= MaxTimers
  /\ LET sp == [spotify EXCEPT !.awaiting = @ - 1]
         got == getTrackData(response)
         unauthenticated == stopPolling(sp, timers)
     IN
     IF got.threw
       THEN IF got.message = "Not authenticated"
              THEN /\ spotify' = unauthenticated.sp
                   /\ timers' = unauthenticated.tm
                   /\ lastCall' = [op |-> "poll", response |-> response, trackData |-> NULL,
                                   calls |-> <<[error |-> "not_authenticated"]>>]
                   /\ UNCHANGED nextTimerId
              ELSE /\ spotify' = sp
                   /\ lastCall' = [op |-> "poll", response |-> response, trackData |-> NULL,
                                   calls |-> <<>>]
                   /\ UNCHANGED <<timers, nextTimerId>>
     ELSE IF got.trackData = NULL
       THEN /\ spotify' = sp
            /\ lastCall' = [op |-> "poll", response |-> response, trackData |-> NULL,
                            calls |-> <<>>]
            /\ UNCHANGED <<timers, nextTimerId>>
       ELSE LET trackData == got.trackData
                td == Val(trackData)
                trackChanged == sp.currentTrackId # Some(td.id)
                sp1 == [sp EXCEPT !.currentTrackId = Some(td.id)]
                call == [trackData |-> trackData, trackChanged |-> trackChanged]
            IN CASE outcome = "returns" ->
                      LET cleared == IF sp1.pollInterval # NULL
                                       THEN clearInterval(timers, Val(sp1.pollInterval))
                                       ELSE timers
                          nextInterval == IF td.isPlaying THEN pollingInterval
                                                          ELSE pollingInterval * 6
                      IN /\ spotify' = [sp1 EXCEPT !.pollInterval = Some(nextTimerId)]
                         /\ timers' = setInterval(cleared, nextTimerId, nextInterval)
                         /\ nextTimerId' = nextTimerId + 1
                         /\ lastCall' = [op |-> "poll", response |-> response,
                                         trackData |-> trackData, calls |-> <<call>>]
                 [] outcome = "throws" ->
                      /\ spotify' = sp1
                      /\ lastCall' = [op |-> "poll", response |-> response,
                                      trackData |-> trackData, calls |-> <<call>>]
                      /\ UNCHANGED <<timers, nextTimerId>>
                 [] outcome = "throws Not authenticated" ->
                      LET stopped == stopPolling(sp1, timers) IN
                      /\ spotify' = stopped.sp
                      /\ timers' = stopped.tm
                      /\ lastCall' = [op |-> "poll", response |-> response,
                                      trackData |-> trackData,
                                      calls |-> <<call, [error |-> "not_authenticated"]>>]
                      /\ UNCHANGED nextTimerId
  /\ UNCHANGED <<GENRE_THEMES, themeEngine, beatEngine, pending>>
  /\ UNCHANGED <<now, busVars, homeAssistant, haHost>>

\* stopPolling (part_001:232-239) called by the owner of the service
StopPolling ==
  /\ LET stopped == stopPolling(spotify, timers) IN
       /\ spotify' = stopped.sp
       /\ timers' = stopped.tm
  /\ lastCall' = [op |-> "stopPolling"]
  /\ UNCHANGED <<GENRE_THEMES, themeEngine, beatEngine, nextTimerId, pending>>
  /\ UNCHANGED <<now, busVars, homeAssistant, haHost>>

(***************************************************************************)
(* HomeAssistantService (home-assistant-service.js:6-411): one instance,   *)
(* the WebSockets it has created, the host's timers and the events of the  *)
(* server that reach it.  Its methods are operators on a world             *)
(* w = [ha, host]: the fields of the instance, and the sockets, timers and *)
(* suspended calls the host holds for it.  The socket URL, the listener    *)
(* registry and the answers to sent messages are left out.                 *)
(***************************************************************************)
maxReconnectAttempts == 10
maxReconnectDelay == 30000

\* the constructor (7-20); pollingInterval is undefined until startPolling
HomeAssistantInit ==
  [ws |-> NULL, isConnected |-> FALSE, reconnectAttempts |-> 0, reconnectDelay |-> 1000,
   pollingInterval |-> NULL, messageId |-> 1, pendingMessages |-> {}]

\* what the host holds for the instance: the sockets that are not yet
\* forgotten, each with its state and whether the 10 s timeout of the
\* connectWebSocket call that made it is pending; how many sockets were made,
\* and how many the behaviour may make; the active setInterval timers; the
\* pending reconnect timeouts in the order they were set; the pending message
\* timeouts; the connect() call, with the socket whose promise it awaits; the
\* authenticate() calls suspended in their fetches; whether disconnect() was
\* the last call of the owner; and the observation of the last step
HostInit(limit) ==
  [sockets |-> <<>>, made |-> 0, limit |-> limit, intervals |-> {}, reconnects |-> <<>>,
   messageTimeouts |-> {}, call |-> "none", awaits |-> NULL, authenticating |-> 0,
   disconnected |-> FALSE, lastOp |-> [op |-> "other"]]

\* the least id of ids that is not in used
LeastFree(ids, used) == CHOOSE i \in ids \ used : \A j \in ids \ used : i <= j

\* Math.min
MathMin(a, b) == IF a <= b THEN a ELSE b

\* Math.pow(2, n) for a natural n
RECURSIVE Pow2(_)
Pow2(n) == IF n = 0 THEN 1 ELSE 2 * Pow2(n - 1)

\* the promise of the connectWebSocket call that made socket s is rejected
\* (66, 78): connect(), when it awaits that promise, returns false (42-45);
\* the rejection of a reconnection is logged (364-366)
reject(w, s) ==
  [w EXCEPT !.host.call = IF w.host.awaits = Some(s) THEN "false" ELSE @,
            !.host.awaits = IF w.host.awaits = Some(s) THEN NULL ELSE @]

\* connectWebSocket (51-85): a new socket in this.ws, its handlers, and the
\* timeout of the initial connection; the promise is resolved nowhere
connectWebSocket(w) ==
  LET s == LeastFree(1..MaxSockets, DOMAIN w.host.sockets)
      made == [state |-> "connecting", timeout |-> TRUE]
  IN [w EXCEPT !.ha.ws = Some(s),
               !.host.made = @ + 1,
               !.host.sockets = [x \in DOMAIN @ \cup {s} |-> IF x = s THEN made ELSE @[x]]]

\* a handleReconnect that doubles without the cap of maxReconnectDelay
handleReconnect_uncapped(w) ==
  IF w.ha.reconnectAttempts >= maxReconnectAttempts THEN w
  ELSE LET n == w.ha.reconnectAttempts + 1
           delay == w.ha.reconnectDelay * Pow2(n - 1)
       IN [w EXCEPT !.ha.reconnectAttempts = n,
                    !.host.reconnects = Append(@, [attempt |-> n, delay |-> delay])]

\* handleReconnect (349-368)
handleReconnect(w) ==
  IF w.ha.reconnectAttempts >= maxReconnectAttempts THEN w
  ELSE LET n == w.ha.reconnectAttempts + 1
           delay == MathMin(w.ha.reconnectDelay * Pow2(n - 1), maxReconnectDelay)
       IN [w EXCEPT !.ha.reconnectAttempts = n,
                    !.host.reconnects = Append(@, [attempt |-> n, delay |-> delay])]

\* ws.onclose (69-73)
onclose(w) == handleReconnect([w EXCEPT !.ha.isConnected = FALSE])

\* WebSocket.close on socket s: the close event follows later; nothing
\* happens on a socket that is closing or closed
close(w, s) ==
  IF s \in DOMAIN w.host.sockets /\ w.host.sockets[s].state \in {"connecting", "open"}
    THEN [w EXCEPT !.host.sockets[s].state = "closing"]
    ELSE w

\* startPolling (373-385)
haStartPolling(w) ==
  LET id == LeastFree(1..MaxIntervals, w.host.intervals)
  IN [w EXCEPT !.ha.pollingInterval = Some(id), !.host.intervals = @ \cup {id}]

\* stopPolling (390-395)
haStopPolling(w) ==
  IF w.ha.pollingInterval # NULL
    THEN [w EXCEPT !.host.intervals = @ \ {Val(w.ha.pollingInterval)},
                   !.ha.pollingInterval = NULL]
    ELSE w

\* sendMessage (171-193): rejects without a socket or a connection (173-176);
\* else records the pending message, sends it and sets its timeout
sendMessage(w) ==
  IF w.ha.ws = NULL \/ ~w.ha.isConnected THEN w
  ELSE LET id == w.ha.messageId
       IN [w EXCEPT !.ha.messageId = id + 1,
                    !.ha.pendingMessages = @ \cup {id},
                    !.host.messageTimeouts = @ \cup {id}]

\* disconnect (400-410)
disconnect(w) ==
  LET w1 == IF w.ha.ws # NULL THEN [close(w, Val(w.ha.ws)) EXCEPT !.ha.ws = NULL] ELSE w
      w2 == haStopPolling(w1)
  IN [w2 EXCEPT !.ha.pendingMessages = {}, !.ha.isConnected = FALSE]

\* the host forgets a closed socket whose events are all over; this.ws may
\* go on naming it until connectWebSocket puts the next socket there
Forget(w) ==
  LET kept == {s \in DOMAIN w.host.sockets :
                 \/ w.host.sockets[s].state # "closed"
                 \/ w.host.sockets[s].timeout
                 \/ w.host.awaits = Some(s)}
  IN [w EXCEPT !.host.sockets = [s \in kept |-> @[s]]]

HAWorld == [ha |-> homeAssistant, host |-> haHost]

\* the observation of a step that no property looks at
Other == [op |-> "other"]

\* the step leaves the service and the host as in w, observed as op
HAStep(w, op) ==
  /\ homeAssistant' = Forget(w).ha
  /\ haHost' = [Forget(w).host EXCEPT !.lastOp = op]
  /\ Len(haHost'.reconnects) <= MaxReconnects
  /\ haHost'.made <= haHost.limit
  /\ UNCHANGED <<now, themeVars, busVars, spotify>>

\* what the server's /api/config answers to connect()
ConfigInputs == {"fails", "not configured", "configured"}

\* the messages of the server that handleMessage acts on before any other
AuthMessages == {"auth_required", "auth_ok", "auth_invalid"}

\* connect (25-46) is called and suspends in its fetch of the configuration
HAConnect ==
  /\ haHost.call \in {"none", "false"}
  /\ HAStep([HAWorld EXCEPT !.host.call = "config", !.host.disconnected = FALSE],
            Other)

\* connect resumes with the configuration (29-41): it returns false when the
\* fetch failed or nothing is configured, else runs connectWebSocket and
\* awaits its promise
ConfigFetched(config) ==
  /\ haHost.call = "config"
  /\ IF config = "configured"
       THEN /\ Cardinality(DOMAIN haHost.sockets) < MaxSockets
            /\ LET w == connectWebSocket(HAWorld)
               IN HAStep([w EXCEPT !.host.call = "socket", !.host.awaits = w.ha.ws],
                         Other)
       ELSE HAStep([HAWorld EXCEPT !.host.call = "false"], Other)

\* ws.onopen (56-58): the socket is established; the handler logs
SocketOpens(s) ==
  /\ s \in DOMAIN haHost.sockets
  /\ haHost.sockets[s].state = "connecting"
  /\ HAStep([HAWorld EXCEPT !.host.sockets[s].state = "open"], Other)

\* ws.onmessage (60-62) and handleMessage (90-114) for a message of the
\* authentication phase: auth_required starts authenticate(), which suspends
\* in its fetch; auth_ok marks the service connected, resets the backoff and
\* subscribes; auth_invalid closes this.ws, and throws when there is none
SocketMessage(s, type) ==
  /\ s \in DOMAIN haHost.sockets
  /\ haHost.sockets[s].state = "open"
  /\ CASE type = "auth_required" ->
            /\ haHost.authenticating < MaxAuth
            /\ HAStep([HAWorld EXCEPT !.host.authenticating = @ + 1],
                      Other)
       [] type = "auth_ok" ->
            /\ homeAssistant.messageId <= MaxMessages
            /\ HAStep(sendMessage([HAWorld EXCEPT !.ha.isConnected = TRUE,
                                                  !.ha.reconnectAttempts = 0,
                                                  !.ha.reconnectDelay = 1000]),
                      Other)
       [] type = "auth_invalid" ->
            IF homeAssistant.ws = NULL
              THEN HAStep(HAWorld, [op |-> "threw"])
              ELSE HAStep(close(HAWorld, Val(homeAssistant.ws)),
                          Other)

\* authenticate (138-156) resumes after its fetches: it marks the service
\* connected and starts polling, or logs when a fetch failed
AuthenticateResumes(ok) ==
  /\ haHost.authenticating > 0
  /\ LET w == [HAWorld EXCEPT !.host.authenticating = @ - 1]
     IN IF ok
          THEN /\ Cardinality(haHost.intervals) < MaxIntervals
               /\ HAStep(haStartPolling([w EXCEPT !.ha.isConnected = TRUE]),
                         Other)
          ELSE HAStep(w, Other)

\* ws.onerror (64-67): the connection failed or broke; the close event follows
SocketFails(s) ==
  /\ s \in DOMAIN haHost.sockets
  /\ haHost.sockets[s].state \in {"connecting", "open"}
  /\ HAStep(reject([HAWorld EXCEPT !.host.sockets[s].state = "closing"], s),
            Other)

\* ws.onclose (69-73): the server closed the socket, or close() or an error
\* came before
SocketCloses(s) ==
  /\ s \in DOMAIN haHost.sockets
  /\ haHost.sockets[s].state \in {"open", "closing"}
  /\ LET w == onclose([HAWorld EXCEPT !.host.sockets[s].state = "closed"])
     IN HAStep(w, [op |-> "close", socket |-> s,
                   scheduled |-> Len(w.host.reconnects) > Len(haHost.reconnects)])

\* the timeout of the initial connection runs (76-80)
ConnectionTimeout(s) ==
  /\ s \in DOMAIN haHost.sockets
  /\ haHost.sockets[s].timeout
  /\ LET w == [HAWorld EXCEPT !.host.sockets[s].timeout = FALSE]
     IN HAStep(IF ~homeAssistant.isConnected THEN reject(w, s) ELSE w,
               Other)

\* the i-th pending reconnect timeout runs (363-367): connectWebSocket, whose
\* rejection is logged
ReconnectFires(i) ==
  /\ i \in 1..Len(haHost.reconnects)
  /\ Cardinality(DOMAIN haHost.sockets) < MaxSockets
  /\ LET rest == [k \in 1..(Len(haHost.reconnects) - 1) |->
                    IF k < i THEN haHost.reconnects[k] ELSE haHost.reconnects[k + 1]]
     IN HAStep(connectWebSocket([HAWorld EXCEPT !.host.reconnects = rest]),
               Other)

\* the callback of the polling interval id runs (376-384): it reads the
\* lights and calls the listeners, and changes no field of the service
PollingIntervalFires(id) ==
  /\ id \in haHost.intervals
  /\ HAStep(HAWorld, Other)

\* the timeout of the sent message id runs (186-191)
MessageTimesOut(id) ==
  /\ id \in haHost.messageTimeouts
  /\ HAStep([HAWorld EXCEPT !.host.messageTimeouts = @ \ {id},
                            !.ha.pendingMessages = @ \ {id}],
            Other)

\* stopPolling (390-395) called by the owner of the service
HAStopPolling == HAStep(haStopPolling(HAWorld), [op |-> "stopPolling"])

\* disconnect (400-410) called by the owner of the service
HADisconnect ==
  HAStep([disconnect(HAWorld) EXCEPT !.host.disconnected = TRUE], Other)

(***************************************************************************)
(* Operations of the BeatEngine                                            *)
(***************************************************************************)
\* a call on the engine; pre is the engine as the call found it
BeatCall(op, arg, w) ==
  /\ beatEngine' = w.be
  /\ timers' = w.timers
  /\ nextTimerId' = w.nextTimerId
  /\ lastCall' = [op |-> op, arg |-> arg, pre |-> beatEngine,
                  ticks |-> w.ticks, threw |-> w.threw]
  /\ UNCHANGED <<GENRE_THEMES, themeEngine, pending, now, busVars, serviceVars>>

SetBPM(bpm) ==
  /\ nextTimerId <= MaxTimers
  /\ BeatCall("setBPM", bpm, setBPM(TheWorld, bpm, Some(EmptyObject), now))

StartBeat ==
  /\ nextTimerId <= MaxTimers
  /\ BeatCall("startBeat", NULL, startBeat(TheWorld, now))

StopBeat == BeatCall("stopBeat", NULL, stopBeat(TheWorld))

Destroy == BeatCall("destroy", NULL, destroy(TheWorld))

\* the host runs the callback of an active interval timer (430-432)
IntervalFires(id) ==
  /\ id \in DOMAIN timers
  /\ beatEngine.beatCount < MaxBeat
  /\ BeatCall("interval", Some(id), emitBeat(TheWorld, now))

\* the host clock advances
AdvanceTime ==
  /\ now + TimeStep <= MaxTime
  /\ now' = now + TimeStep
  /\ UNCHANGED <<themeVars, busVars, serviceVars>>

(***************************************************************************)
(* EventBus (event-bus.js:33-171): one instance, the messages that reach   *)
(* it, and the host's setTimeout timers.  Callbacks are opaque: they       *)
(* return or throw, and do not call back into the bus.                     *)
(***************************************************************************)
deduplicationWindow == 100

\* the callbacks that are registered
Handlers == {"h1", "h2"}

\* the message types callbacks are registered for
Types == {"beat:tick", "theme:update"}

\* the keys of the listener registry
Keys == Types \cup {"*"}

\* the eventTypes of on and off: a type, the wildcard, or an array of both
TypesInputs == {{"beat:tick"}, {"*"}, {"beat:tick", "*"}}

Message(type, data, timestamp) == [type |-> type, data |-> data, timestamp |-> timestamp]

\* the messages that reach handleMessage: null, one without type, and
\* well-formed ones that share or differ in type, timestamp and payload
MessageInputs ==
  {NULL,
   Some(Message(NULL, "d1", 1)),
   Some(Message(Some("beat:tick"), "d1", 1)),
   Some(Message(Some("beat:tick"), "d2", 1)),
   Some(Message(Some("beat:tick"), "d1", 2))}

\* the messages whose dispatch is looked at: one of the type callbacks are
\* registered for, and one of a type only the wildcard callbacks receive
DispatchMessageInputs ==
  {Some(Message(Some("beat:tick"), "d1", 1)),
   Some(Message(Some("theme:update"), "d1", 1))}

\* the messages that reach the bus while its subscriptions change
SubMessageInputs == {Some(Message(Some("beat:tick"), "d1", 1))}

\* a key made of the type alone
messageKey_typeOnly(message) == Val(message.type)

\* line 66: `${message.type}-${message.timestamp}`
messageKey(message) == Val(message.type) \o "-" \o ToString(message.timestamp)

\* a check that never finds the key
IsDuplicate_never(history, message) == FALSE

\* line 67: this.messageHistory.has(messageKey)
IsDuplicate(history, message) == messageKey(message) \in history

\* this.listeners.get(key), as the insertion-ordered list of its callbacks.
\* A key the Map does not hold and a key with an empty Set read alike at
\* lines 79-80, 91-92 and 128-129, and both are the empty list here.
ListenersOf(reg, key) == reg[key]

NoListeners == [k \in Keys |-> <<>>]

\* Set.prototype.add on an insertion-ordered set
SetAdd(s, x) == IF \E i \in 1..Len(s) : s[i] = x THEN s ELSE Append(s, x)

\* Set.prototype.delete on an insertion-ordered set
SetDelete(s, x) == SelectSeq(s, LAMBDA y : y # x)

\* a dispatch that serves the wildcard callbacks first
Dispatch_wildcardFirst(reg, type) ==
  [i \in 1..Len(ListenersOf(reg, "*")) |-> <<"*", ListenersOf(reg, "*")[i]>>] \o
  [i \in 1..Len(ListenersOf(reg, type)) |-> <<type, ListenersOf(reg, type)[i]>>]

\* lines 78-100: the invocations of one delivery, in order: the callbacks of
\* the message's type, then the wildcard callbacks; each as <<key, callback>>
Dispatch(reg, type) ==
  [i \in 1..Len(ListenersOf(reg, type)) |-> <<type, ListenersOf(reg, type)[i]>>] \o
  [i \in 1..Len(ListenersOf(reg, "*")) |-> <<"*", ListenersOf(reg, "*")[i]>>]

\* the subscriptions a message of this type is delivered through
Subscriptions(reg, type) ==
  {<<type, ListenersOf(reg, type)[i]>> : i \in 1..Len(ListenersOf(reg, type))} \cup
  {<<"*", ListenersOf(reg, "*")[i]>> : i \in 1..Len(ListenersOf(reg, "*"))}

\* the number of registrations the registry holds
Registrations(reg) ==
  LET RECURSIVE Sum(_)
      Sum(ks) == IF ks = {} THEN 0
                 ELSE LET k == CHOOSE x \in ks : TRUE IN Len(reg[k]) + Sum(ks \ {k})
  IN Sum(DOMAIN reg)

\* how many times x occurs in the sequence s
Count(s, x) == Cardinality({i \in 1..Len(s) : s[i] = x})

\* the identity of a message for the observer: its type and timestamp
MsgId(message) == <<Val(message.type), message.timestamp>>

\* the dedup key of the message with this identity
KeyOfId(id) == messageKey([type |-> Some(id[1]), timestamp |-> id[2]])

NoMsg == [op |-> "none"]

\* the BroadcastChannel objects attached to the channel name: the one this
\* bus holds and one held by a bus in another widget
Endpoints == {"self", "peer"}

\* channel.postMessage (153): the browser queues the message for every
\* BroadcastChannel object of that name other than the one it was posted on
Destinations(sender) == Endpoints \ {sender}

\* a dispatch loop without the try/catch of lines 82-86 and 94-98: the first
\* exception ends the loop and leaves handleMessage
Invoke_uncaught(calls, throwers) ==
  LET bad == {i \in 1..Len(calls) : calls[i][2] \in throwers}
      first == CHOOSE i \in bad : \A j \in bad : i <= j
  IN IF bad = {} THEN [calls |-> calls, logged |-> <<>>, threw |-> FALSE]
     ELSE [calls |-> SubSeq(calls, 1, first), logged |-> <<>>, threw |-> TRUE]

\* lines 81-87 and 93-99: each callback is called inside its own try/catch;
\* what a callback throws is logged and the loop goes on
Invoke(calls, throwers) ==
  [calls |-> calls,
   logged |-> SelectSeq(calls, LAMBDA c : c[2] \in throwers),
   threw |-> FALSE]

\* the subscriptions the registry holds, as <<key, callback>>
AllSubscriptions(reg) ==
  UNION {{<<k, reg[k][i]>> : i \in 1..Len(reg[k])} : k \in DOMAIN reg}

\* the observation of removed subscriptions: off, or holding the subscriptions
\* that off or disconnect took away, each with the call that took it
Unobserved == [observed |-> FALSE, subs |-> {}]

Observed(subs) == [observed |-> TRUE, subs |-> subs]

Observe(old, subs) == IF old.observed THEN Observed(subs) ELSE old

\* the observation has room for what the call takes away
Observable(obs) == Cardinality(obs.subs) <= MaxRemoved

BusInit ==
  /\ channel \in BOOLEAN      \* the constructor's connect() may fail (57-59)
  /\ listeners = NoListeners
  /\ messageHistory = {}
  /\ cleanups = EmptyBag
  /\ posted = <<>>
  /\ inflight = {}
  /\ received = [e \in Endpoints |-> {}]
  /\ removed \in {Unobserved, Observed({})}
  /\ recorded = <<>>
  /\ lastMsg = NoMsg

\* connect (44-60): attaches a channel, or logs when BroadcastChannel throws
Connect(ok) ==
  /\ channel' = IF ok THEN TRUE ELSE channel
  /\ lastMsg' = NoMsg
  /\ UNCHANGED <<listeners, messageHistory, cleanups, pubVars, removed, recorded, now, themeVars, serviceVars>>

\* on (108-119): add the callback to the set of every listed key.
\* lastMsg.again tells that the callback was already registered under every
\* listed key by an earlier call
On(types, callback) ==
  /\ listeners' = [k \in Keys |->
                     IF k \in types THEN SetAdd(ListenersOf(listeners, k), callback)
                                    ELSE listeners[k]]
  /\ Registrations(listeners') <= MaxSubs
  /\ removed' = Observe(removed, {r \in removed.subs : ~(r.sub[1] \in types /\ r.sub[2] = callback)})
  /\ lastMsg' = [op |-> "on", types |-> types, callback |-> callback,
                 again |-> \A k \in types : <<k, callback>> \in AllSubscriptions(listeners)]
  /\ UNCHANGED <<channel, messageHistory, cleanups, pubVars, recorded, now, themeVars, serviceVars>>

\* an off that stops at the first listed key
Off_firstKeyOnly(types, callback) ==
  /\ listeners' = [k \in Keys |->
                     IF k = (CHOOSE t \in types : TRUE) THEN SetDelete(listeners[k], callback)
                                                       ELSE listeners[k]]
  /\ removed' = Observe(removed, removed.subs \cup
                  {[sub |-> sub, by |-> "off"] :
                     sub \in AllSubscriptions(listeners) \ AllSubscriptions(listeners')})
  /\ Observable(removed')
  /\ lastMsg' = NoMsg
  /\ UNCHANGED <<channel, messageHistory, cleanups, pubVars, recorded, now, themeVars, serviceVars>>

\* off (124-133), also what the function returned by on does (118)
Off(types, callback) ==
  /\ listeners' = [k \in Keys |->
                     IF k \in types THEN SetDelete(listeners[k], callback)
                                    ELSE listeners[k]]
  /\ removed' = Observe(removed, removed.subs \cup
                  {[sub |-> sub, by |-> "off"] :
                     sub \in AllSubscriptions(listeners) \ AllSubscriptions(listeners')})
  /\ Observable(removed')
  /\ lastMsg' = NoMsg
  /\ UNCHANGED <<channel, messageHistory, cleanups, pubVars, recorded, now, themeVars, serviceVars>>

\* handleMessage (62-101).  throwers are the callbacks that throw in this
\* delivery.  recorded keeps, for the message, how often it arrived while its
\* entry is live, how many subscriptions it had when it was first delivered
\* and how many invocations it has caused; lastMsg.afterThrow tells that a
\* callback threw in the handleMessage call just before this one.
Receive(message, throwers) ==
  /\ IF message = NULL \/ Val(message).type = NULL
       THEN /\ lastMsg' = [op |-> "handleMessage", ignored |-> TRUE,
                           calls |-> <<>>, logged |-> <<>>, threw |-> FALSE]
            /\ UNCHANGED <<messageHistory, cleanups, recorded>>
       ELSE LET m == Val(message)
                id == MsgId(m)
                live == DOMAIN recorded
                duplicate == IsDuplicate(messageHistory, m)
                out == IF duplicate THEN Invoke(<<>>, throwers)
                       ELSE Invoke(Dispatch(listeners, Val(m.type)), throwers)
            IN /\ id \in live => recorded[id].arrivals < MaxArrivals
               /\ IF duplicate
                    THEN UNCHANGED <<messageHistory, cleanups>>
                    ELSE /\ BagCardinality(cleanups) < MaxCleanups
                         /\ messageHistory' = messageHistory \cup {messageKey(m)}
                         /\ cleanups' = cleanups (+) SetToBag({[key |-> messageKey(m),
                                                                left |-> deduplicationWindow]})
               /\ recorded' =
                    IF id \in live
                      THEN [recorded EXCEPT ![id].arrivals = @ + 1,
                                            ![id].calls = @ + Len(out.calls)]
                    ELSE IF duplicate THEN recorded
                    ELSE [x \in live \cup {id} |->
                            IF x # id THEN recorded[x]
                            ELSE [arrivals |-> 1,
                                  subs |-> Cardinality(Subscriptions(listeners, Val(m.type))),
                                  calls |-> Len(out.calls)]]
               /\ lastMsg' = [op |-> "handleMessage", ignored |-> FALSE, id |-> id,
                              duplicate |-> duplicate, wasLive |-> id \in live,
                              calls |-> out.calls, logged |-> out.logged,
                              threw |-> out.threw,
                              afterThrow |-> lastMsg.op = "handleMessage" /\ lastMsg.logged # <<>>]
  /\ UNCHANGED <<channel, listeners, removed, now, themeVars, serviceVars>>

\* channel.onmessage (48-50) for a message posted by a bus of another widget
HandleMessage(message, throwers) ==
  /\ channel
  /\ Receive(message, throwers)
  /\ UNCHANGED pubVars

\* a cleanup that takes its entry to be there, and throws when it is not
CleanupFires_assumesEntry(c) ==
  /\ BagIn(c, cleanups)
  /\ c.left = 0
  /\ messageHistory' = messageHistory \ {c.key}
  /\ cleanups' = cleanups (-) SetToBag({c})
  /\ recorded' = [x \in {y \in DOMAIN recorded : KeyOfId(y) # c.key} |-> recorded[x]]
  /\ lastMsg' = [op |-> "cleanup", threw |-> c.key \notin messageHistory]
  /\ UNCHANGED <<channel, listeners, pubVars, removed, now, themeVars, serviceVars>>

\* the cleanup scheduled at line 74 runs once its delay has passed (75):
\* Map.delete, which returns false for a key the map does not hold
CleanupFires(c) ==
  /\ BagIn(c, cleanups)
  /\ c.left = 0
  /\ messageHistory' = messageHistory \ {c.key}
  /\ cleanups' = cleanups (-) SetToBag({c})
  /\ recorded' = [x \in {y \in DOMAIN recorded : KeyOfId(y) # c.key} |-> recorded[x]]
  /\ lastMsg' = [op |-> "cleanup", threw |-> FALSE]
  /\ UNCHANGED <<channel, listeners, pubVars, removed, now, themeVars, serviceVars>>

\* time passes on the host: every pending cleanup comes d ms closer
Elapse(bag, d) ==
  LET Later(c) == [c EXCEPT !.left = IF @ > d THEN @ - d ELSE 0]
      RECURSIVE Move(_)
      Move(cs) == IF cs = {} THEN EmptyBag
                  ELSE LET c == CHOOSE x \in cs : TRUE
                       IN [e \in {Later(c)} |-> bag[c]] (+) Move(cs \ {c})
  IN Move(BagToSet(bag))

\* an emit that posts whether or not a channel is attached
Emit_ignoresChannel(type, data, sent) ==
  /\ Len(posted) < MaxPosted
  /\ posted' = Append(posted, Message(Some(type), data, now))
  /\ inflight' = inflight \cup {[to |-> d, message |-> Message(Some(type), data, now)] :
                                  d \in Destinations("self")}
  /\ lastMsg' = [op |-> "emit", transmitted |-> TRUE, logged |-> FALSE, threw |-> FALSE]
  /\ UNCHANGED <<channel, listeners, messageHistory, cleanups, received, removed,
                 recorded, now, themeVars, serviceVars>>

\* emit (140-157): logs and returns without a channel (141-144); else posts
\* {type, data, timestamp: Date.now()}.  sent is FALSE when postMessage
\* throws, which is caught and logged (154-156).
Emit(type, data, sent) ==
  /\ Len(posted) < MaxPosted
  /\ IF channel /\ sent
       THEN /\ posted' = Append(posted, Message(Some(type), data, now))
            /\ inflight' = inflight \cup
                             {[to |-> d, message |-> Message(Some(type), data, now)] :
                                d \in Destinations("self")}
       ELSE UNCHANGED <<posted, inflight>>
  /\ lastMsg' = [op |-> "emit", transmitted |-> channel /\ sent,
                 logged |-> ~(channel /\ sent), threw |-> FALSE]
  /\ UNCHANGED <<channel, listeners, messageHistory, cleanups, received, removed,
                 recorded, now, themeVars, serviceVars>>

\* the browser runs the onmessage of the object a queued delivery is for:
\* this bus's handleMessage (48-50), or that of the bus in the other widget
\* (a channel that was closed meanwhile is skipped)
MediumDelivers(f, throwers) ==
  /\ f \in inflight
  /\ inflight' = inflight \ {f}
  /\ UNCHANGED posted
  /\ IF f.to = "self" /\ channel
       THEN /\ received' = [received EXCEPT ![f.to] = @ \cup {f.message}]
            /\ Receive(Some(f.message), throwers)
       ELSE /\ received' = IF f.to = "self" THEN received
                           ELSE [received EXCEPT ![f.to] = @ \cup {f.message}]
            /\ lastMsg' = NoMsg
            /\ UNCHANGED <<channel, listeners, messageHistory, cleanups, removed,
                           recorded, now, themeVars, serviceVars>>

\* a disconnect that closes the channel and keeps the registry
Disconnect_keepsListeners ==
  /\ channel' = FALSE
  /\ messageHistory' = {}
  /\ removed' = Observe(removed, removed.subs)
  /\ recorded' = <<>>
  /\ lastMsg' = [op |-> "disconnect"]
  /\ UNCHANGED <<listeners, cleanups, pubVars, now, themeVars, serviceVars>>

\* disconnect (162-170)
Disconnect ==
  /\ channel' = FALSE
  /\ listeners' = NoListeners
  /\ messageHistory' = {}
  /\ removed' = Observe(removed, removed.subs \cup
                  {[sub |-> sub, by |-> "disconnect"] : sub \in AllSubscriptions(listeners)})
  /\ Observable(removed')
  /\ recorded' = <<>>
  /\ lastMsg' = [op |-> "disconnect"]
  /\ UNCHANGED <<cleanups, pubVars, now, themeVars, serviceVars>>

\* BusTimeStep ms pass without a cleanup running
TimePasses ==
  /\ \E c \in BagToSet(cleanups) : c.left > 0
  /\ cleanups' = Elapse(cleanups, BusTimeStep)
  /\ lastMsg' = NoMsg
  /\ UNCHANGED <<channel, listeners, messageHistory, pubVars, removed, recorded, now, themeVars, serviceVars>>

\* the host clock moves on between two calls of this bus
ClockTicks ==
  /\ now < MaxTime
  /\ now' = now + TimeStep
  /\ lastMsg' = NoMsg
  /\ UNCHANGED <<themeVars, serviceVars, channel, listeners, messageHistory, cleanups, pubVars,
                 removed, recorded>>

(***************************************************************************)
(* Specifications                                                          *)
(***************************************************************************)
\* the services as their constructors leave them
ServiceInit ==
  spotify = SpotifyInit /\ homeAssistant = HomeAssistantInit /\ haHost = HostInit(MaxMade)

Init == now = 0 /\ ThemeInit /\ BusInit /\ channel /\ removed = Unobserved /\ ServiceInit

\* the ThemeEngine with the BeatEngine it owns
Next ==
  \/ \E trackData \in TrackInputs : GenerateThemeFromTrack(trackData)
  \/ \E i \in 1..MaxPending, outcome \in ExtractOutcomes : ExtractionSettles(i, outcome)
  \/ \E lightState \in LightInputs : UpdateFromHomeAssistant(lightState)
  \/ \E enabled \in BOOLEAN : SetSyncWithHomeAssistant(enabled)
  \/ \E id \in 1..MaxTimers : IntervalFires(id)

Spec == Init /\ [][Next]_vars

\* a BeatEngine driven through its own methods
NextBeat ==
  \/ \E bpm \in SetBpmInputs : SetBPM(bpm)
  \/ StartBeat
  \/ StopBeat
  \/ Destroy
  \/ \E id \in 1..MaxTimers : IntervalFires(id)
  \/ AdvanceTime

SpecBeat == Init /\ [][NextBeat]_vars

\* detectGenreTheme run on every list of tags
NextGenre == \E genres \in GenreInputs : DetectGenreTheme(genres)

SpecGenre == Init /\ [][NextGenre]_vars

\* a SpotifyService that is polled
NextPoll ==
  \/ StartPolling
  \/ \E id \in 1..MaxTimers : PollTimerFires(id)
  \/ \E response \in ResponseInputs, outcome \in CallbackOutcomes :
       PollResumes(response, outcome)
  \/ StopPolling

SpecPoll == Init /\ [][NextPoll]_vars

\* a HomeAssistantService with the events of its sockets and timers
NextHA ==
  \/ HAConnect
  \/ \E config \in ConfigInputs : ConfigFetched(config)
  \/ \E s \in 1..MaxSockets : SocketOpens(s)
  \/ \E s \in 1..MaxSockets, type \in AuthMessages : SocketMessage(s, type)
  \/ \E ok \in BOOLEAN : AuthenticateResumes(ok)
  \/ \E s \in 1..MaxSockets : SocketFails(s)
  \/ \E s \in 1..MaxSockets : SocketCloses(s)
  \/ \E s \in 1..MaxSockets : ConnectionTimeout(s)
  \/ \E i \in 1..MaxReconnects : ReconnectFires(i)
  \/ \E id \in 1..MaxIntervals : PollingIntervalFires(id)
  \/ \E id \in 1..MaxMessages : MessageTimesOut(id)
  \/ HAStopPolling
  \/ HADisconnect

SpecHA == Init /\ [][NextHA]_vars

\* the same, where the host runs every timer that is due and every fetch is
\* answered; what the server does with a socket is left open
HAFairness ==
  /\ WF_vars(\E config \in ConfigInputs : ConfigFetched(config))
  /\ WF_vars(\E ok \in BOOLEAN : AuthenticateResumes(ok))
  /\ \A s \in 1..MaxSockets : WF_vars(ConnectionTimeout(s))
  /\ \A i \in 1..MaxReconnects : WF_vars(ReconnectFires(i))
  /\ \A id \in 1..MaxIntervals : WF_vars(PollingIntervalFires(id))
  /\ \A id \in 1..MaxMessages : WF_vars(MessageTimesOut(id))

SpecHALive == Init /\ [][NextHA]_vars /\ HAFairness

\* a HomeAssistantService whose sockets open, fail and close until the
\* reconnection gives up
InitReconnect ==
  /\ now = 0 /\ ThemeInit /\ BusInit /\ channel /\ removed = Unobserved
  /\ spotify = SpotifyInit /\ homeAssistant = HomeAssistantInit
  /\ haHost = HostInit(maxReconnectAttempts + 1)

NextReconnect ==
  \/ HAConnect
  \/ \E config \in ConfigInputs : ConfigFetched(config)
  \/ \E s \in 1..MaxSockets : SocketOpens(s)
  \/ \E s \in 1..MaxSockets : SocketMessage(s, "auth_ok")
  \/ \E s \in 1..MaxSockets : SocketFails(s)
  \/ \E s \in 1..MaxSockets : SocketCloses(s)
  \/ \E s \in 1..MaxSockets : ConnectionTimeout(s)
  \/ \E i \in 1..MaxReconnects : ReconnectFires(i)
  \/ \E id \in 1..MaxMessages : MessageTimesOut(id)

SpecReconnect == InitReconnect /\ [][NextReconnect]_vars

\* extractColors run on every image
NextExtract ==
  \E image \in ImageInputs, colorCount \in ColorCountInputs : ExtractColors(image, colorCount)

SpecExtract == Init /\ [][NextExtract]_vars

\* generateThemeFromTrack called with the audio features a track can have
NextFeatures == \E trackData \in FeatureInputs : GenerateThemeFromTrack(trackData)

SpecFeatures == Init /\ [][NextFeatures]_vars

\* one EventBus instance on the receiving side
InitBus == now = 0 /\ ThemeInit /\ BusInit /\ removed = Unobserved /\ ServiceInit

NextBus ==
  \/ \E ok \in BOOLEAN : Connect(ok)
  \/ \E types \in TypesInputs, callback \in Handlers : On(types, callback)
  \/ \E types \in TypesInputs, callback \in Handlers : Off(types, callback)
  \/ \E message \in MessageInputs, throwers \in {{}, {"h1"}} : HandleMessage(message, throwers)
  \/ \E c \in BagToSet(cleanups) : CleanupFires(c)
  \/ Disconnect
  \/ TimePasses

SpecBus == InitBus /\ [][NextBus]_vars

\* the dispatch of messages of two types to callbacks that come, go and throw
NextDispatch ==
  \/ \E types \in TypesInputs, callback \in Handlers : On(types, callback)
  \/ \E types \in TypesInputs, callback \in Handlers : Off(types, callback)
  \/ \E message \in DispatchMessageInputs, throwers \in {{}, {"h1"}} :
       HandleMessage(message, throwers)
  \/ \E c \in BagToSet(cleanups) : CleanupFires(c)
  \/ TimePasses

SpecDispatch == InitBus /\ [][NextDispatch]_vars

\* one EventBus instance that publishes, and the medium that carries its posts
NextPub ==
  \/ \E ok \in BOOLEAN : Connect(ok)
  \/ \E types \in TypesInputs, callback \in Handlers : On(types, callback)
  \/ \E types \in TypesInputs, callback \in Handlers : Off(types, callback)
  \/ \E type \in Types, data \in {"d1"}, sent \in BOOLEAN : Emit(type, data, sent)
  \/ \E f \in inflight, throwers \in {{}, {"h1"}} : MediumDelivers(f, throwers)
  \/ Disconnect
  \/ ClockTicks

SpecPub == InitBus /\ [][NextPub]_vars

\* one EventBus instance whose subscriptions come and go, with the
\* observation of the subscriptions that were taken away
InitSub == now = 0 /\ ThemeInit /\ BusInit /\ removed = Observed({}) /\ ServiceInit

NextSub ==
  \/ Connect(TRUE)
  \/ \E types \in TypesInputs, callback \in Handlers : On(types, callback)
  \/ \E types \in TypesInputs, callback \in Handlers : Off(types, callback)
  \/ \E message \in SubMessageInputs : HandleMessage(message, {})
  \/ \E c \in BagToSet(cleanups) : CleanupFires(c)
  \/ Disconnect
  \/ TimePasses

SpecSub == InitSub /\ [][NextSub]_vars

(***************************************************************************)
(* Properties                                                              *)
(***************************************************************************)
Delivered == lastMsg.op = "handleMessage" /\ ~lastMsg.ignored

\* C1: when a message with the type and timestamp of one whose dedup entry is
\* still recorded arrives, it invokes no callback: over the pair, every
\* subscription of that type and every wildcard subscription that the first
\* arrival found is invoked exactly once (SpecBus).
C1_DuplicateInvokesOnce ==
  /\ \A id \in DOMAIN recorded :
       recorded[id].arrivals >= 2 => recorded[id].calls = recorded[id].subs
  /\ (Delivered /\ lastMsg.wasLive) => lastMsg.calls = <<>>
  /\ (Delivered /\ ~lastMsg.wasLive) =>
       \A sub \in Subscriptions(listeners, lastMsg.id[1]) : Count(lastMsg.calls, sub) = 1

\* a second arrival of a message that was delivered to a type subscription
\* and a wildcard subscription
C1_Witness ==
  /\ Delivered /\ lastMsg.wasLive /\ lastMsg.duplicate
  /\ recorded[lastMsg.id].arrivals = 2
  /\ recorded[lastMsg.id].subs = 2
  /\ Len(listeners["beat:tick"]) = 1 /\ Len(listeners["*"]) = 1

\* the messages of the same type and another timestamp whose entry is live
SameTypeLive(id) == {o \in DOMAIN recorded : o[1] = id[1] /\ o[2] # id[2]}

\* C2: a message that arrives while the entry of a message of the same type
\* and a different timestamp is live is not taken for a duplicate: it is
\* delivered once to every callback subscribed to its type, and the other
\* message stays delivered once (SpecBus).
C2_DistinctTimestampsBothDelivered ==
  (Delivered /\ ~lastMsg.wasLive /\ SameTypeLive(lastMsg.id) # {}) =>
     /\ ~lastMsg.duplicate
     /\ \A i \in 1..Len(listeners[lastMsg.id[1]]) :
          Count(lastMsg.calls, <<lastMsg.id[1], listeners[lastMsg.id[1]][i]>>) = 1
     /\ \A o \in SameTypeLive(lastMsg.id) : recorded[o].calls = recorded[o].subs

C2_Witness ==
  /\ Delivered /\ ~lastMsg.wasLive /\ ~lastMsg.duplicate
  /\ \E o \in SameTypeLive(lastMsg.id) : recorded[o].subs >= 1
  /\ Len(listeners[lastMsg.id[1]]) >= 1

\* a generateThemeFromTrack call has just returned a Theme
Generated == lastCall.op = "generateThemeFromTrack" /\ lastCall.result # NULL

OverrideActive == themeEngine.syncWithHA /\ themeEngine.haLightColors # NULL

\* C3: a Theme assembled while sync is enabled and an override is stored has
\* the override as colors.primary, and the colors.secondary and colors.accent
\* that the same call gives without an override (Spec).
C3_OverridePrecedence ==
  (Generated /\ OverrideActive) =>
     LET c == Val(lastCall.result).colors IN
       /\ c.primary = rgbToString(Val(themeEngine.haLightColors))
       /\ c.secondary = lastCall.plain.secondary
       /\ c.accent = lastCall.plain.accent

\* the override replaced a primary that was extracted from album art
C3_Witness ==
  /\ Generated /\ OverrideActive
  /\ lastCall.extracted # NULL /\ Val(lastCall.extracted) # NULL
  /\ Val(lastCall.result).colors.primary = "rgb(10, 20, 30)"
  /\ lastCall.plain.primary = "rgb(200, 40, 40)"

\* C4: the genre catalog keeps the contents it had at start-up (Spec).
C4_CatalogReadOnly == GENRE_THEMES = GenreThemesInit

\* the primary colour of a Theme that no override touches: the extracted
\* dominant colour, or the genre's primary as the catalog defines it
PlainPrimary ==
  IF lastCall.extracted # NULL /\ Val(lastCall.extracted) # NULL
    THEN Val(Val(lastCall.extracted)).dominant
    ELSE GenreThemesInit[ThemeKeyOf(lastCall.genreKey)].baseColors.primary

\* C5: setSyncWithHomeAssistant(false) keeps the stored override, and every
\* Theme generated while sync is disabled has the extracted or genre-default
\* primary, whatever was generated before (Spec).
C5_DisabledSyncIgnoresOverride ==
  [][/\ (lastCall'.op = "setSyncWithHomeAssistant" /\ lastCall' # lastCall) =>
          themeEngine'.haLightColors = themeEngine.haLightColors
     /\ (lastCall'.op = "generateThemeFromTrack" /\ lastCall'.result # NULL
         /\ ~themeEngine'.syncWithHA) =>
          Val(lastCall'.result).colors.primary = rgbToString(PlainPrimary')]_vars

\* a setBPM call on an engine that has not been destroyed has just returned
SetBPMReturned == lastCall.op = "setBPM" /\ lastCall.pre.eventBus

\* C6: setBPM on an engine that an earlier setBPM left running cancels that
\* call's timer and emits exactly one tick, with beatCount 1, whatever the
\* count had reached (SpecBeat).
C6_SecondSetBPMRestarts ==
  (SetBPMReturned /\ lastCall.pre.isRunning) =>
     /\ lastCall.pre.beatTimerId # NULL
     /\ Val(lastCall.pre.beatTimerId) \notin DOMAIN timers
     /\ Len(lastCall.ticks) = 1
     /\ lastCall.ticks[1].beatCount = 1
     /\ beatEngine.beatCount = 1
     /\ DOMAIN timers = {Val(beatEngine.beatTimerId)}

C6_Witness ==
  /\ SetBPMReturned /\ lastCall.pre.isRunning
  /\ lastCall.pre.beatCount = 2
  /\ Len(lastCall.ticks) = 1

\* C7, as stated: the tick emitted on entering Running carries beatCount 0.
C7_FirstTickIsZero ==
  SetBPMReturned => (Len(lastCall.ticks) >= 1 /\ lastCall.ticks[1].beatCount = 0)

\* C7, amended: the tick emitted on entering Running through setBPM carries
\* beatCount 1: the first tick of every BPM session is beat 1 (SpecBeat).
C7_FirstTickIsOne ==
  SetBPMReturned =>
     /\ lastCall.ticks # <<>>
     /\ lastCall.ticks[1].beatCount = 1
     /\ beatEngine.isRunning

\* setBPM takes an idle engine to Running
C7_Witness ==
  /\ SetBPMReturned /\ lastCall.pre.bpm = NULL /\ ~lastCall.pre.isRunning
  /\ beatEngine.isRunning /\ lastCall.ticks # <<>>

\* C8: when stopBeat or destroy has returned, no interval timer is left to
\* emit a tick, the call itself emitted none, beatCount is 0 and isRunning is
\* false (SpecBeat).
C8_StopCancelsTimer ==
  lastCall.op \in {"stopBeat", "destroy"} =>
     /\ DOMAIN timers = {}
     /\ beatEngine.beatTimerId = NULL
     /\ lastCall.ticks = <<>>
     /\ beatEngine.beatCount = 0
     /\ ~beatEngine.isRunning

\* a running engine that had ticked was stopped
C8_Witness ==
  /\ lastCall.op \in {"stopBeat", "destroy"}
  /\ lastCall.pre.isRunning /\ lastCall.pre.beatTimerId # NULL
  /\ lastCall.pre.beatCount = 2

\* C9: setBPM with an argument that is falsy, <= 0 or > 300 leaves bpm 120 and
\* beatInterval exactly 500 and completes; with an argument in (0, 300] it
\* leaves that bpm and beatInterval 60000 / bpm (SpecBeat).
C9_BPMCoercion ==
  lastCall.op = "setBPM" =>
     LET arg == lastCall.arg
         interval == Val(beatEngine.beatInterval)
     IN IF arg = NULL \/ Val(arg) <= 0 \/ Val(arg) > 300
          THEN /\ beatEngine.bpm = Some(120)
               /\ RatioIs(interval, 500)
               /\ lastCall.pre.eventBus => ~lastCall.threw
          ELSE /\ beatEngine.bpm = arg
               /\ interval.num * Val(arg) = 60000 * interval.den

\* an argument just above the limit was coerced
C9_Witness ==
  /\ lastCall.op = "setBPM" /\ lastCall.arg = Some(301)
  /\ beatEngine.bpm = Some(120) /\ ~lastCall.threw

\* C10: when generateThemeFromTrack has returned a Theme, the Beat Engine is
\* running with the Theme's tempo: its bpm, and the bpm of the ticks, is
\* Theme.bpm, and its interval rounded to whole ms is effects.beatDuration
\* (Spec).
C10_BeatEngineTracksTheme ==
  Generated =>
     LET theme == Val(lastCall.result) IN
       /\ beatEngine.isRunning
       /\ beatEngine.bpm = Some(theme.bpm)
       /\ \A i \in 1..Len(lastCall.ticks) : lastCall.ticks[i].bpm = Some(theme.bpm)
       /\ ToString(MathRound(Val(beatEngine.beatInterval).num,
                             Val(beatEngine.beatInterval).den)) \o "ms"
            = theme.effects.beatDuration

\* a message has just been dispatched to the callbacks
Dispatched == Delivered /\ ~lastMsg.duplicate

\* the subscriptions that the named call took away and that were not registered again
RemovedBy(op) == {r.sub : r \in {x \in removed.subs : x.by = op}}

\* C11: off(types, handler), which is what the function returned by
\* on(types, handler) runs, leaves the handler registered under none of the
\* listed keys; a call that finds it under none of them changes nothing; and
\* no message dispatched later invokes the handler through a subscription
\* that off took away, as long as it was not registered again (SpecSub).
C11_UnsubscribeStopsDelivery ==
  [][ /\ \A types \in TypesInputs, callback \in Handlers :
           Off(types, callback) =>
             /\ \A k \in types : <<k, callback>> \notin AllSubscriptions(listeners')
             /\ (\A k \in types : <<k, callback>> \notin AllSubscriptions(listeners))
                  => listeners' = listeners
             /\ \A k \in Keys \ types : listeners'[k] = listeners[k]
      /\ RemovedBy("off")' \cap AllSubscriptions(listeners') = {}
      /\ Dispatched' =>
           \A i \in 1..Len(lastMsg'.calls) : lastMsg'.calls[i] \notin RemovedBy("off")'
    ]_vars

\* a message is dispatched to a callback of its type after another callback
\* was unsubscribed from that type
C11_Witness ==
  /\ Dispatched /\ lastMsg.calls # <<>>
  /\ \E sub \in RemovedBy("off") : sub[1] = lastMsg.id[1]

\* C12: a dispatch in which a callback throws does not throw out of
\* handleMessage: every subscription of the type and every wildcard
\* subscription is invoked once, the throwing one included, what was thrown
\* is logged, and the same holds of the dispatch that follows it (SpecDispatch).
C12_ThrowingHandlerIsIsolated ==
  Dispatched =>
    /\ ~lastMsg.threw
    /\ lastMsg.calls = Dispatch(listeners, lastMsg.id[1])
    /\ \A sub \in Subscriptions(listeners, lastMsg.id[1]) : Count(lastMsg.calls, sub) = 1
    /\ \A i \in 1..Len(lastMsg.logged) : Count(lastMsg.calls, lastMsg.logged[i]) = 1

\* right after a dispatch in which a callback threw, another message is
\* dispatched: the callback is invoked again, throws first, and the other
\* callback is invoked after it
C12_Witness ==
  /\ Dispatched /\ lastMsg.afterThrow
  /\ Len(lastMsg.calls) = 2
  /\ lastMsg.logged = <<lastMsg.calls[1]>>

\* C13: a dispatch invokes every callback registered for the message's type
\* once and every wildcard callback once, and every callback of the type
\* before any wildcard callback (SpecDispatch).
C13_WildcardAfterTypeHandlers ==
  Dispatched =>
    /\ \A i \in 1..Len(listeners["*"]) : Count(lastMsg.calls, <<"*", listeners["*"][i]>>) = 1
    /\ \A i \in 1..Len(listeners[lastMsg.id[1]]) :
         Count(lastMsg.calls, <<lastMsg.id[1], listeners[lastMsg.id[1]][i]>>) = 1
    /\ \A i, j \in 1..Len(lastMsg.calls) :
         (lastMsg.calls[i][1] = "*" /\ lastMsg.calls[j][1] # "*") => j < i

\* a dispatch to one callback of the type and one wildcard callback
C13_Witness ==
  /\ Dispatched
  /\ Len(listeners[lastMsg.id[1]]) = 1 /\ Len(listeners["*"]) = 1
  /\ Len(lastMsg.calls) = 2

\* C15: when disconnect returns the bus has no channel, an empty registry and
\* an empty dedup history, and no message dispatched later invokes a callback
\* through a subscription that disconnect took away (SpecSub).
C15_DisconnectClearsAll ==
  /\ lastMsg.op = "disconnect" =>
       ~channel /\ listeners = NoListeners /\ messageHistory = {}
  /\ RemovedBy("disconnect") \cap AllSubscriptions(listeners) = {}
  /\ Dispatched =>
       \A i \in 1..Len(lastMsg.calls) : lastMsg.calls[i] \notin RemovedBy("disconnect")

\* after a disconnect that took a subscription of the type away, the bus is
\* connected again, a callback is registered, and a message is dispatched to it
C15_Witness ==
  /\ Dispatched /\ lastMsg.calls # <<>>
  /\ \E sub \in RemovedBy("disconnect") : sub[1] = lastMsg.id[1]

\* the state disconnect leaves
Disconnected == ~channel /\ listeners = NoListeners /\ messageHistory = {}

\* C17: a cleanup timer that fires on a bus that disconnect has left without
\* channel, registry and history throws nothing and leaves all three as they
\* are (SpecBus).
C17_CleanupAfterDisconnect ==
  [][ \A c \in BagToSet(cleanups) :
        (Disconnected /\ CleanupFires(c)) => (Disconnected' /\ ~lastMsg'.threw) ]_vars

\* a cleanup has just run on a disconnected bus
C17_Witness == lastMsg.op = "cleanup" /\ Disconnected

\* the medium has no delivery of the message left
Settled(m) == \A f \in inflight : f.message # m

\* C14: once the medium has delivered a message that emit posted, the
\* message has reached the bus of the other widget and, when the publishing
\* bus itself holds a subscription for its type, the publishing bus as well
\* (SpecPub).
C14_EmitReachesEveryBus ==
  \A i \in 1..Len(posted) :
    Settled(posted[i]) =>
      /\ posted[i] \in received["peer"]
      /\ (channel /\ Subscriptions(listeners, Val(posted[i].type)) # {})
           => posted[i] \in received["self"]

\* C16: on a bus without channel, emit throws nothing, posts nothing and
\* leaves the registry and the dedup history as they are, and on registers
\* the callback under every listed key (SpecPub).
C16_NoChannelDegrades ==
  [][ /\ \A type \in Types, data \in {"d1"}, sent \in BOOLEAN :
           (~channel /\ Emit(type, data, sent)) =>
              /\ ~lastMsg'.threw /\ ~lastMsg'.transmitted
              /\ posted' = posted /\ inflight' = inflight
              /\ listeners' = listeners /\ messageHistory' = messageHistory
              /\ ~channel'
      /\ \A types \in TypesInputs, callback \in Handlers :
           (~channel /\ On(types, callback)) =>
              \A k \in types : <<k, callback>> \in AllSubscriptions(listeners')
    ]_vars

\* emit has just returned on a bus that has no channel and holds a callback
\* that was registered without one
C16_Witness ==
  /\ lastMsg.op = "emit" /\ ~channel /\ ~lastMsg.transmitted
  /\ AllSubscriptions(listeners) # {}
  /\ posted = <<>>

\* detectGenreTheme has just returned
Detected == lastCall.op = "detectGenreTheme"

\* the genre the table gives a tag: that of the key the tag, lowercased and
\* trimmed, equals; else that of the first key, in table order, that contains
\* it or is contained in it; NULL for a tag that matches no key.  how tells
\* which of the two it was.
TagMatch(tag) ==
  LET n == trim(toLowerCase(tag))
      exact == {i \in 1..Len(GENRE_MAP) : GENRE_MAP[i][1] = n}
      sub == {i \in 1..Len(GENRE_MAP) :
                includes(n, GENRE_MAP[i][1]) \/ includes(GENRE_MAP[i][1], n)}
  IN IF exact # {}
       THEN Some([genre |-> GENRE_MAP[CHOOSE i \in exact : TRUE][2], how |-> "exact"])
     ELSE IF sub # {}
       THEN Some([genre |-> GENRE_MAP[CHOOSE i \in sub : \A j \in sub : i <= j][2],
                  how |-> "substring"])
     ELSE NULL

\* C18: detectGenreTheme returns default for an absent or empty list and for
\* a list none of whose tags matches a table key; for a list whose first tag
\* equals a table key it returns that key's genre, and for one whose first
\* tag equals no key and matches one by substring, the genre of the first
\* such key (SpecGenre).
C18_DetectGenreTheme ==
  Detected =>
    IF lastCall.genres = NULL \/ Val(lastCall.genres) = <<>>
      THEN lastCall.result = "default"
      ELSE LET tags == Val(lastCall.genres)
               match == [k \in 1..Len(tags) |-> TagMatch(tags[k])]
           IN /\ (\A k \in 1..Len(tags) : match[k] = NULL) => lastCall.result = "default"
              /\ match[1] # NULL => lastCall.result = Val(match[1]).genre

\* C19: for a list in which two tags match different genres, detectGenreTheme
\* returns the genre of the earliest tag that matches a table key, exactly or
\* by substring (SpecGenre).
C19_EarliestTagWins ==
  (Detected /\ lastCall.genres # NULL) =>
    LET tags == Val(lastCall.genres)
        match == [k \in 1..Len(tags) |-> TagMatch(tags[k])]
        hits == {k \in 1..Len(tags) : match[k] # NULL}
    IN (\E j, k \in hits : Val(match[j]).genre # Val(match[k]).genre) =>
         lastCall.result = Val(match[CHOOSE k \in hits : \A j \in hits : k <= j]).genre

\* generateThemeFromTrack has just returned at line 192
ReturnedAtNoTrack == lastCall.op = "generateThemeFromTrack" /\ "noTrack" \in DOMAIN lastCall

\* C20: generateThemeFromTrack called without trackData or without its track
\* field returns null, emits no tick, and leaves the ThemeEngine's fields
\* (currentTheme, currentBPM, audioFeatures, albumArtColors, the override and
\* the sync flag), the BeatEngine, its timer and the catalog as they were (Spec).
C20_NoTrackChangesNothing ==
  [][ \A trackData \in TrackInputs :
        ((trackData = NULL \/ Val(trackData).track = NULL) /\ GenerateThemeFromTrack(trackData))
          => /\ lastCall'.result = NULL /\ lastCall'.ticks = <<>> /\ ~lastCall'.threw
             /\ UNCHANGED <<themeEngine, beatEngine, timers, nextTimerId, GENRE_THEMES, pending>>
    ]_vars

\* the call returned at line 192 on an engine that holds a Theme, an override
\* and a running BeatEngine
C20_Witness ==
  /\ ReturnedAtNoTrack
  /\ themeEngine.currentTheme # NULL /\ themeEngine.haLightColors # NULL
  /\ beatEngine.isRunning /\ DOMAIN timers # {}

\* the audio features that the last generateThemeFromTrack call was given
Supplied == Val(lastCall.features)

\* C21: the Theme's intensityClass is low exactly when its energy is below
\* 0.4, high exactly when it is above 0.7 and medium otherwise: 0.39 is low,
\* 0.40 and 0.70 are medium, 0.71 is high (SpecFeatures).
C21_IntensityClass ==
  Generated =>
    LET theme == Val(lastCall.result)
        energy == theme.audioFeatures.energy
    IN /\ theme.intensityClass = "low" <=> energy < 40
       /\ theme.intensityClass = "high" <=> energy > 70
       /\ theme.intensityClass = "medium" <=> (energy >= 40 /\ energy <= 70)
       /\ Supplied.energy = Some(39) => theme.intensityClass = "low"
       /\ Supplied.energy = Some(40) => theme.intensityClass = "medium"
       /\ Supplied.energy = Some(70) => theme.intensityClass = "medium"
       /\ Supplied.energy = Some(71) => theme.intensityClass = "high"

\* a Theme generated from energy 0.70 is classified medium
C21_Witness ==
  /\ Generated
  /\ Supplied.energy = Some(70)
  /\ Val(lastCall.result).intensityClass = "medium"

\* what a Theme holds for a feature that trackData.features supplies or omits
FeatureOf(supplied) == IF supplied = NULL THEN 50 ELSE Val(supplied)

\* C22: a generated Theme's energy, valence and danceability are the values
\* that trackData.features supplies, 0 included, and 0.5 only for an absent
\* field; intensityClass is computed from that energy (SpecFeatures).
C22_SuppliedFeaturesKept ==
  Generated =>
    LET theme == Val(lastCall.result) IN
      /\ theme.audioFeatures.energy = FeatureOf(Supplied.energy)
      /\ theme.audioFeatures.valence = FeatureOf(Supplied.valence)
      /\ theme.audioFeatures.danceability = FeatureOf(Supplied.danceability)
      /\ theme.intensityClass = IntensityClass(FeatureOf(Supplied.energy))

\* an updateFromHomeAssistant call has just returned
Updated == lastCall.op = "updateFromHomeAssistant"

\* the override that updateFromHomeAssistant(lightState) is to leave behind
OverrideOf(lightState) ==
  IF lightState = NULL \/ Val(lightState).rgb_color = NULL THEN NULL
  ELSE LET rgb == Val(Val(lightState).rgb_color) IN Some(RGB(rgb[1], rgb[2], rgb[3]))

\* C23: updateFromHomeAssistant stores the light's rgb_color as the override,
\* clears the override when the light state or its rgb_color is absent, and
\* in every case returns a boolean: true exactly when a current Theme
\* exists (Spec).
C23_UpdateReturnsBoolean ==
  Updated =>
    /\ themeEngine.haLightColors = OverrideOf(lastCall.lightState)
    /\ lastCall.result = Some(themeEngine.currentTheme # NULL)

\* C24: updateFromHomeAssistant leaves currentTheme, the BeatEngine, its timer
\* and the sync flag as they were, emits no tick and posts nothing; the
\* current Theme changes only in a step in which a generateThemeFromTrack
\* call completes (Spec).
C24_UpdateDoesNotRegenerate ==
  [][ /\ \A lightState \in LightInputs :
           UpdateFromHomeAssistant(lightState) =>
             /\ themeEngine'.currentTheme = themeEngine.currentTheme
             /\ themeEngine'.syncWithHA = themeEngine.syncWithHA
             /\ themeEngine'.currentBPM = themeEngine.currentBPM
             /\ UNCHANGED <<beatEngine, timers, nextTimerId, GENRE_THEMES, pubVars>>
             /\ lastCall'.ticks = <<>>
      /\ themeEngine'.currentTheme # themeEngine.currentTheme =>
           lastCall'.op = "generateThemeFromTrack"
    ]_vars

\* a new override was stored while sync is enabled, and the current Theme
\* still has the primary colour it was generated with
C24_Witness ==
  /\ Updated /\ lastCall.result = Some(TRUE)
  /\ OverrideActive
  /\ Val(themeEngine.currentTheme).colors.primary # rgbToString(Val(themeEngine.haLightColors))
\* an extractColors call has just settled
Extracted == lastCall.op = "extractColors"

\* the image was read and none of its pixels passed lines 536-550
NoPixelSurvives(image) ==
  /\ image.loads /\ ~image.fault
  /\ \A i \in 1..Len(image.pixels) : ~IsVibrant(image.pixels[i])

\* C25: extractColors resolves with the fixed fallback palette, the same on
\* every call, when the image fails to load and when no pixel passes the
\* opacity and vibrancy filter (SpecExtract).
C25_FallbackPalette ==
  (Extracted /\ (~lastCall.image.loads \/ NoPixelSurvives(lastCall.image))) =>
     lastCall.result =
       Resolved([dominant |-> RGB(139, 92, 246),
                 palette |-> <<RGB(139, 92, 246), RGB(236, 72, 153), RGB(6, 182, 212)>>])

\* an image of a transparent and a grey pixel gave the fallback palette
C25_Witness ==
  /\ Extracted /\ NoPixelSurvives(lastCall.image)
  /\ \E i, j \in 1..Len(lastCall.image.pixels) :
       /\ lastCall.image.pixels[i].a < 128
       /\ lastCall.image.pixels[j].a >= 128
  /\ lastCall.result = Resolved(FallbackPalette)

\* C26: an exception thrown while a loaded image is processed makes
\* extractColors resolve with the fallback palette of a load failure
\* (SpecExtract).
C26_ProcessingErrorFallsBack ==
  (Extracted /\ lastCall.image.loads /\ lastCall.image.fault) =>
     lastCall.result = Resolved(FallbackPalette)

\* the distinct colours among the kept pixels
DistinctColors(image) ==
  {VibrantColors(image.pixels)[i] : i \in 1..Len(VibrantColors(image.pixels))}

\* C28: when colorCount is at least the number of distinct colours among the
\* kept pixels, the palette holds each of those colours once and nothing
\* else (SpecExtract).
C28_PaletteIsTheColors ==
  (/\ Extracted /\ lastCall.image.loads /\ ~lastCall.image.fault
   /\ DistinctColors(lastCall.image) # {}
   /\ lastCall.colorCount >= Cardinality(DistinctColors(lastCall.image))) =>
     LET palette == lastCall.result.value.palette IN
       /\ lastCall.result.settled = "resolved"
       /\ {palette[i] : i \in 1..Len(palette)} = DistinctColors(lastCall.image)
       /\ Len(palette) = Cardinality(DistinctColors(lastCall.image))
\* the generateThemeFromTrack call that has just completed had its
\* extractColors rejected
ExtractionFailed ==
  /\ lastCall.op = "generateThemeFromTrack"
  /\ "extracted" \in DOMAIN lastCall
  /\ lastCall.extracted = Some(NULL)

\* the palette the catalog defines for the genre of the last call
BasePalette == GenreThemesInit[ThemeKeyOf(lastCall.genreKey)].baseColors

\* C27: when extractColors rejects, generateThemeFromTrack still returns a
\* Theme and starts the BeatEngine, and the Theme's primary, secondary and
\* accent are the genre's base palette, the primary being the override when
\* one is active (Spec).
C27_ExtractionFailureKeepsBasePalette ==
  ExtractionFailed =>
    /\ lastCall.result # NULL
    /\ themeEngine.currentTheme = lastCall.result
    /\ beatEngine.isRunning /\ lastCall.ticks # <<>>
    /\ LET c == Val(lastCall.result).colors IN
         /\ c.secondary = rgbToString(BasePalette.secondary)
         /\ c.accent = rgbToString(BasePalette.accent)
         /\ c.primary = IF OverrideActive THEN rgbToString(Val(themeEngine.haLightColors))
                                          ELSE rgbToString(BasePalette.primary)
\* the last call had no album art, so it ran from start to end in one step
\* and returned a Theme; every call still suspended was started before it
CompletedWhileOthersWait ==
  /\ lastCall.op = "generateThemeFromTrack"
  /\ "extracted" \in DOMAIN lastCall
  /\ lastCall.extracted = NULL /\ lastCall.result # NULL
  /\ Len(pending) = 1

\* C30: when a generateThemeFromTrack call is suspended in extractColors
\* while a second call starts and completes, then after the first has
\* completed too, currentTheme, currentBPM and the BeatEngine's bpm are
\* still those of the second call, the one started last (Spec).
C30_LastStartedWins ==
  [][ \A i \in 1..MaxPending, outcome \in ExtractOutcomes :
        (CompletedWhileOthersWait /\ ExtractionSettles(i, outcome)) =>
           /\ themeEngine'.currentTheme = lastCall.result
           /\ themeEngine'.currentBPM = themeEngine.currentBPM
           /\ beatEngine'.bpm = beatEngine.bpm
    ]_vars
\* C29: while polling is on and no poll() is running, a timer is set that
\* will run the next poll, whatever the last poll resolved with (SpecPoll).
C29_PollingContinues ==
  (spotify.isPolling /\ spotify.awaiting = 0) =>
     /\ spotify.pollInterval # NULL
     /\ Val(spotify.pollInterval) \in DOMAIN timers

\* C31: after any sequence of setBPM, startBeat, stopBeat and destroy calls,
\* isRunning is true exactly when an interval timer is active, the active
\* timer is the one the engine holds, and there is at most one (SpecBeat).
C31_RunningIffTimer ==
  /\ beatEngine.isRunning <=> DOMAIN timers # {}
  /\ Cardinality(DOMAIN timers) <= 1
  /\ beatEngine.isRunning =>
       (beatEngine.beatTimerId # NULL /\ DOMAIN timers = {Val(beatEngine.beatTimerId)})

\* every key of the history has its latest cleanup still to run
CleanupPending(history, bag) == \A k \in history : \E c \in BagToSet(bag) : c.key = k

\* the window of the latest recording of key k has elapsed: no cleanup for k
\* has time left
WindowElapsed(k) == \A c \in BagToSet(cleanups) : c.key = k => c.left = 0

\* C32: a key recorded by handleMessage leaves the history only when the
\* window of that recording has elapsed (or when disconnect clears the whole
\* history), every key of the history has a cleanup pending, and the history
\* is empty once every cleanup has run (SpecBus).
C32_KeyExpiresAfterWindow ==
  [][ /\ \A k \in messageHistory \ messageHistory' :
           lastMsg'.op = "disconnect" \/ WindowElapsed(k)
      /\ CleanupPending(messageHistory', cleanups')
      /\ cleanups' = EmptyBag => messageHistory' = {} ]_vars
\* C33: when a handler that is already registered for a type is registered
\* for it by a second on() call, and the unsubscribe function that one of the
\* two calls returned is invoked, the handler is still registered for the type
\* (SpecSub).
C33_OtherSubscriptionSurvives ==
  [][ \A types \in TypesInputs, callback \in Handlers :
        ( /\ lastMsg.op = "on" /\ lastMsg.again
          /\ lastMsg.types = types /\ lastMsg.callback = callback
          /\ Off(types, callback) )
        => \A k \in types : <<k, callback>> \in AllSubscriptions(listeners') ]_vars
\* the tag is empty or holds white space only
BlankTag(tag) == \A i \in 1..Len(tag) : IsSpace(tag[i])

\* C34: detectGenreTheme returns default for a list that has tags, all of
\* them empty or white space only (SpecGenre).
C34_BlankTagsGiveDefault ==
  (Detected /\ lastCall.genres # NULL /\ Val(lastCall.genres) # <<>>
     /\ \A k \in 1..Len(Val(lastCall.genres)) : BlankTag(Val(lastCall.genres)[k]))
  => lastCall.result = "default"
\* C35: while polling is stopped, and until startPolling is called, no poll
\* timer is active and no poll invokes the callback, a poll that was in
\* flight when stopPolling was called included (SpecPoll).
C35_StoppedStaysStopped ==
  [][ (~spotify.isPolling /\ lastCall'.op # "startPolling")
        => /\ DOMAIN timers' = {}
           /\ lastCall'.op = "poll" => lastCall'.calls = <<>> ]_vars

\* C36: a poll whose current-track request the server answers with 401 stops
\* polling and invokes the callback with the not_authenticated error
\* (SpecPoll).
C36_UnauthorizedStopsPolling ==
  (lastCall.op = "poll" /\ lastCall.response.status = 401)
    => /\ ~spotify.isPolling
       /\ spotify.pollInterval = NULL /\ DOMAIN timers = {}
       /\ lastCall.calls = <<[error |-> "not_authenticated"]>>
\* the delay of the n-th reconnection in a row, in ms
BackoffDelay == <<1000, 2000, 4000, 8000, 16000, 30000, 30000, 30000, 30000, 30000>>

\* C37: reconnectAttempts never exceeds maxReconnectAttempts; only the close
\* of a socket schedules a reconnection, and no more than one; the n-th one
\* in a row is scheduled min(1000 * 2^(n-1), 30000) ms ahead; and a close
\* after maxReconnectAttempts attempts schedules none (SpecReconnect).
C37_ReconnectBackoff ==
  [][ LET n == homeAssistant.reconnectAttempts
          before == haHost.reconnects
          after == haHost'.reconnects
      IN /\ homeAssistant'.reconnectAttempts <= maxReconnectAttempts
         /\ Len(after) <= Len(before) + 1
         /\ Len(after) > Len(before) =>
              /\ haHost'.lastOp.op = "close" /\ n < maxReconnectAttempts
              /\ homeAssistant'.reconnectAttempts = n + 1
              /\ after = Append(before, [attempt |-> n + 1, delay |-> BackoffDelay[n + 1]])
         /\ (haHost'.lastOp.op = "close" /\ n >= maxReconnectAttempts) =>
              /\ after = before /\ ~haHost'.lastOp.scheduled
              /\ homeAssistant'.reconnectAttempts = n ]_vars

\* a socket has just closed after the tenth attempt, and no reconnection was
\* scheduled
C37_Witness ==
  /\ haHost.lastOp.op = "close" /\ ~haHost.lastOp.scheduled
  /\ homeAssistant.reconnectAttempts = maxReconnectAttempts
  /\ haHost.reconnects = <<>>
\* C38: from the return of disconnect() until connect() is called again the
\* service stays disconnected: isConnected is false, this.ws is null and no
\* socket is being established or open, no reconnection is scheduled, and no
\* polling interval is active (SpecHA).
C38_StaysDisconnected ==
  haHost.disconnected =>
    /\ ~homeAssistant.isConnected
    /\ homeAssistant.ws = NULL
    /\ \A s \in DOMAIN haHost.sockets : haHost.sockets[s].state \notin {"connecting", "open"}
    /\ haHost.reconnects = <<>>
    /\ homeAssistant.pollingInterval = NULL /\ haHost.intervals = {}

\* C39: at most one polling interval is active at any time, and none right
\* after stopPolling() (SpecHA).
C39_OnePollingInterval ==
  /\ Cardinality(haHost.intervals) <= 1
  /\ haHost.lastOp.op = "stopPolling" => haHost.intervals = {}
\* C40: a connect() call that has been made returns in the end (SpecHALive).
C40_ConnectReturns ==
  (haHost.call \in {"config", "socket"}) ~> (haHost.call \in {"true", "false"})
====
